---- MODULE Spec2Model ----
(***************************************************************************)
(* Model of the cloud-provider documentation search of context7:           *)
(* searchCloudProviderDocs / searchAwsDocs / searchServiceDocs /           *)
(* fetchAwsDocContent and the shared contentCache (src/src/lib/types.ts).  *)
(*                                                                         *)
(* Strings are sequences of one-character strings, so that toLowerCase and *)
(* includes are computed as the code computes them.  A search is a process *)
(* whose steps are the synchronous segments between two awaits.            *)
(***************************************************************************)
EXTENDS Integers, Sequences, FiniteSets, TLC

VARIABLES
    cache,       \* contentCache: url -> [content, timestamp] (DOMAIN = keys present)
    now,         \* Date.now(), in milliseconds
    ticks,       \* number of clock advances so far
    web,         \* the environment: which pages exist ("flaky" or "full")
    failures,    \* failed fetches so far (counted in the "full" web only)
    procs,       \* the searches that run in this behaviour
    searches,    \* calls of searchCloudProviderDocs so far
    pc,          \* per search: position in the code
    req,         \* per search: the CloudProviderSearchRequest
    startTime,   \* per search: startTime of searchCloudProviderDocs
    svcIdx,      \* per search: index into servicesToSearch (searchAwsDocs loop)
    urlIdx,      \* per search: index into troubleshootingPages (searchServiceDocs loop)
    results,     \* per search: results of searchAwsDocs
    svcResults,  \* per search: results of searchServiceDocs
    inflight,    \* per search: urls with a fetch issued and not yet settled
    fetchLog,    \* per search: urls fetched by the current search, in order
    ret,         \* per search: value returned by the last call of fetchAwsDocContent
    response,    \* per search: the resolved CloudProviderSearchResponse
    lastParsed,  \* url -> record of the last successful parse of that url
    call,        \* a call of a pure function: its name and its arguments
    result       \* the value that call returned, once it has returned

vars == <<cache, now, ticks, web, failures, procs, searches, pc, req, startTime,
          svcIdx, urlIdx, results, svcResults, inflight, fetchLog, ret,
          response, lastParsed, call, result>>

----------------------------------------------------------------------------
(* Bounds of the model *)

MaxLivePatterns == 1   \* flaky web: the first candidate pages of a service may exist
MaxTicks        == 2   \* clock advances per behaviour
MaxSearches     == 2   \* searches started per behaviour
MaxFailures     == 1   \* full web: fetches that fail per behaviour

Procs == {1, 2}

\* An optional value (undefined or null in the code) is a sequence of length 0 or 1
None    == << >>
Some(x) == <<x>>

\* An omitted enum-valued field
Absent == "undefined"

----------------------------------------------------------------------------
(* Strings *)

UpperChars == <<"A","B","C","D","E","F","G","H","I","J","K","L","M","N","O","P","Q","R","S","T","U","V","W","X","Y","Z">>
LowerChars == <<"a","b","c","d","e","f","g","h","i","j","k","l","m","n","o","p","q","r","s","t","u","v","w","x","y","z">>

LowerOf == [c \in {UpperChars[k] : k \in 1..Len(UpperChars)} |->
               LowerChars[CHOOSE k \in 1..Len(UpperChars) : UpperChars[k] = c]]

\* String.prototype.toLowerCase
ToLowerCase(s) ==
    [i \in 1..Len(s) |-> IF s[i] \in DOMAIN LowerOf THEN LowerOf[s[i]] ELSE s[i]]

\* String.prototype.includes
Includes(s, sub) ==
    \E i \in 0..(Len(s) - Len(sub)) : SubSeq(s, i + 1, i + Len(sub)) = sub

\* Mutant: the whole array is pushed, not its slice
Slice0_All(s, n) == s

\* Array.prototype.slice(0, n)
Slice0(s, n) ==
    LET end == IF n < 0 THEN (IF Len(s) + n < 0 THEN 0 ELSE Len(s) + n)
               ELSE (IF n > Len(s) THEN Len(s) ELSE n)
    IN SubSeq(s, 1, end)

----------------------------------------------------------------------------
(* Program constants *)

AWS_DOCS_BASE_URL == <<"h","t","t","p","s",":","/","/","d","o","c","s",".","a","w","s",".","a","m","a","z","o","n",".","c","o","m">>

Svc_iam        == <<"i","a","m">>
Svc_s3         == <<"s","3">>
Svc_lambda     == <<"l","a","m","b","d","a">>
Svc_apigateway == <<"a","p","i","g","a","t","e","w","a","y">>
Svc_cloudwatch == <<"c","l","o","u","d","w","a","t","c","h">>
Svc_ec2        == <<"e","c","2">>
Svc_rds        == <<"r","d","s">>
Svc_dynamodb   == <<"d","y","n","a","m","o","d","b">>

\* Object.keys(AWS_SERVICE_PATTERNS), in insertion order
ServiceKeys ==
    <<Svc_iam, Svc_s3, Svc_lambda, Svc_apigateway, Svc_cloudwatch, Svc_ec2,
      Svc_rds, Svc_dynamodb>>

AWS_SERVICE_PATTERNS ==
    (Svc_iam :> <<"/","I","A","M","/","l","a","t","e","s","t","/","U","s","e","r","G","u","i","d","e","/">>)
 @@ (Svc_s3 :> <<"/","A","m","a","z","o","n","S","3","/","l","a","t","e","s","t","/","u","s","e","r","g","u","i","d","e","/">>)
 @@ (Svc_lambda :> <<"/","l","a","m","b","d","a","/","l","a","t","e","s","t","/","d","g","/">>)
 @@ (Svc_apigateway :> <<"/","a","p","i","g","a","t","e","w","a","y","/","l","a","t","e","s","t","/","d","e","v","e","l","o","p","e","r","g","u","i","d","e","/">>)
 @@ (Svc_cloudwatch :> <<"/","A","m","a","z","o","n","C","l","o","u","d","W","a","t","c","h","/","l","a","t","e","s","t","/">>)
 @@ (Svc_ec2 :> <<"/","A","W","S","E","C","2","/","l","a","t","e","s","t","/","U","s","e","r","G","u","i","d","e","/">>)
 @@ (Svc_rds :> <<"/","A","m","a","z","o","n","R","D","S","/","l","a","t","e","s","t","/","U","s","e","r","G","u","i","d","e","/">>)
 @@ (Svc_dynamodb :> <<"/","a","m","a","z","o","n","d","y","n","a","m","o","d","b","/","l","a","t","e","s","t","/","d","e","v","e","l","o","p","e","r","g","u","i","d","e","/">>)

troubleshootingPatterns ==
    << <<"t","r","o","u","b","l","e","s","h","o","o","t",".","h","t","m","l">>,
       <<"t","r","o","u","b","l","e","s","h","o","o","t","-","a","c","c","e","s","s","-","d","e","n","i","e","d",".","h","t","m","l">>,
       <<"t","r","o","u","b","l","e","s","h","o","o","t","-","p","o","l","i","c","i","e","s",".","h","t","m","l">>,
       <<"t","r","o","u","b","l","e","s","h","o","o","t","-","r","o","l","e","s",".","h","t","m","l">>,
       <<"s","e","c","u","r","i","t","y","_","i","a","m","_","t","r","o","u","b","l","e","s","h","o","o","t",".","h","t","m","l">>,
       <<"t","r","o","u","b","l","e","s","h","o","o","t","-","4","0","3","-","e","r","r","o","r","s",".","h","t","m","l">>,
       <<"t","r","o","u","b","l","e","s","h","o","o","t","-","p","e","r","m","i","s","s","i","o","n","s",".","h","t","m","l">> >>

CACHE_TTL == 12 * 60 * 60 * 1000

DefaultMaxResults == 10

ProviderAWS   == "aws"
ProviderAZURE == "azure"
ProviderGCP   == "gcp"

Cat_ACCESS_DENIED  == "access-denied"
Cat_CONFIGURATION  == "configuration"
Cat_PERMISSIONS    == "permissions"
Cat_AUTHENTICATION == "authentication"
Cat_API_ERRORS     == "api-errors"
Cat_NETWORK        == "network"
Cat_PERFORMANCE    == "performance"
Cat_GENERAL        == "general"

TroubleshootingCategory ==
    {Cat_ACCESS_DENIED, Cat_CONFIGURATION, Cat_PERMISSIONS, Cat_AUTHENTICATION,
     Cat_API_ERRORS, Cat_NETWORK, Cat_PERFORMANCE, Cat_GENERAL}

----------------------------------------------------------------------------
(* Pure functions of src/src/lib/types.ts *)

\* getTroubleshootingUrls: baseUrl + pattern, for every pattern, in list order
getTroubleshootingUrls(servicePattern) ==
    [i \in 1..Len(troubleshootingPatterns) |->
        AWS_DOCS_BASE_URL \o servicePattern \o troubleshootingPatterns[i]]

\* Mutant: the chain runs to its end, so that the last rule that matches wins
Categorize_LastMatch(url, title) ==
    LET urlLower   == ToLowerCase(url)
        titleLower == ToLowerCase(title)
    IN  IF Includes(urlLower, <<"c","o","n","f","i","g">>)
           \/ Includes(titleLower, <<"c","o","n","f","i","g">>)
        THEN Cat_CONFIGURATION
        ELSE IF Includes(urlLower, <<"a","u","t","h">>)
                \/ Includes(titleLower, <<"a","u","t","h">>)
        THEN Cat_AUTHENTICATION
        ELSE IF Includes(urlLower, <<"p","e","r","m","i","s","s","i","o","n">>)
                \/ Includes(titleLower, <<"p","e","r","m","i","s","s","i","o","n">>)
        THEN Cat_PERMISSIONS
        ELSE IF Includes(urlLower, <<"a","c","c","e","s","s","-","d","e","n","i","e","d">>)
                \/ Includes(titleLower, <<"a","c","c","e","s","s"," ","d","e","n","i","e","d">>)
        THEN Cat_ACCESS_DENIED
        ELSE Cat_GENERAL

\* Mutant: a rule for the network category stands at the head of the chain
Categorize_Network(url, title) ==
    LET urlLower   == ToLowerCase(url)
        titleLower == ToLowerCase(title)
    IN  IF Includes(urlLower, <<"n","e","t","w","o","r","k">>)
           \/ Includes(titleLower, <<"n","e","t","w","o","r","k">>)
        THEN Cat_NETWORK
        ELSE IF Includes(urlLower, <<"a","c","c","e","s","s","-","d","e","n","i","e","d">>)
                \/ Includes(titleLower, <<"a","c","c","e","s","s"," ","d","e","n","i","e","d">>)
        THEN Cat_ACCESS_DENIED
        ELSE IF Includes(urlLower, <<"p","e","r","m","i","s","s","i","o","n">>)
                \/ Includes(titleLower, <<"p","e","r","m","i","s","s","i","o","n">>)
        THEN Cat_PERMISSIONS
        ELSE IF Includes(urlLower, <<"a","u","t","h">>)
                \/ Includes(titleLower, <<"a","u","t","h">>)
        THEN Cat_AUTHENTICATION
        ELSE IF Includes(urlLower, <<"c","o","n","f","i","g">>)
                \/ Includes(titleLower, <<"c","o","n","f","i","g">>)
        THEN Cat_CONFIGURATION
        ELSE Cat_GENERAL

\* The category chain of parseAwsDocumentationHtml
Categorize(url, title) ==
    LET urlLower   == ToLowerCase(url)
        titleLower == ToLowerCase(title)
    IN  IF Includes(urlLower, <<"a","c","c","e","s","s","-","d","e","n","i","e","d">>)
           \/ Includes(titleLower, <<"a","c","c","e","s","s"," ","d","e","n","i","e","d">>)
        THEN Cat_ACCESS_DENIED
        ELSE IF Includes(urlLower, <<"p","e","r","m","i","s","s","i","o","n">>)
                \/ Includes(titleLower, <<"p","e","r","m","i","s","s","i","o","n">>)
        THEN Cat_PERMISSIONS
        ELSE IF Includes(urlLower, <<"a","u","t","h">>)
                \/ Includes(titleLower, <<"a","u","t","h">>)
        THEN Cat_AUTHENTICATION
        ELSE IF Includes(urlLower, <<"c","o","n","f","i","g">>)
                \/ Includes(titleLower, <<"c","o","n","f","i","g">>)
        THEN Cat_CONFIGURATION
        ELSE Cat_GENERAL

\* parseAwsDocumentationHtml on a document whose <title> and <meta> tags carry
\* page.title (None without a <title>), page.description and page.keywords.
\* lastUpdated is the clock reading at the parse.
parseAwsDocumentationHtml(page, url, clock) ==
    LET title == IF page.title = None
                 THEN <<"A","W","S"," ","D","o","c","u","m","e","n","t","a","t","i","o","n">>
                 ELSE page.title[1]
    IN  [title       |-> title,
         url         |-> url,
         description |-> page.description,
         keywords    |-> page.keywords,
         lastUpdated |-> clock,
         category    |-> Categorize(url, title)]

\* Mutant: the query is looked for in the title alone
contentMatchesQuery_TitleOnly(content, query, category) ==
    LET queryLower == ToLowerCase(query)
    IN  IF category # Absent /\ content.category # category
        THEN FALSE
        ELSE Includes(ToLowerCase(content.title), queryLower)

contentMatchesQuery(content, query, category) ==
    LET queryLower == ToLowerCase(query)
    IN  IF category # Absent /\ content.category # category
        THEN FALSE
        ELSE \/ Includes(ToLowerCase(content.title), queryLower)
             \/ Includes(ToLowerCase(content.description), queryLower)
             \/ \E k \in 1..Len(content.keywords) :
                    Includes(ToLowerCase(content.keywords[k]), queryLower)

\* const maxResults = searchRequest.maxResults || 10
EffectiveMax(r) ==
    IF r.maxResults = None \/ r.maxResults[1] = 0 THEN DefaultMaxResults ELSE r.maxResults[1]

\* servicesToSearch of searchAwsDocs
ServicesToSearch(r) ==
    IF r.service # None /\ r.service[1] # <<>>
    THEN <<ToLowerCase(r.service[1])>>
    ELSE ServiceKeys

Name_constructor == <<"c","o","n","s","t","r","u","c","t","o","r">>
Name_proto       == <<"_","_","p","r","o","t","o","_","_">>
Name_toString    == <<"t","o","S","t","r","i","n","g">>

\* AWS_SERVICE_PATTERNS is an object literal: a lookup by a name that is no
\* own key goes to Object.prototype.  The inherited values are functions and
\* an object; ObjectPrototype gives, for a name, the text the template
\* `${AWS_DOCS_BASE_URL}${servicePattern}` makes of the value.
ObjectPrototype ==
    (Name_constructor :> <<"f","u","n","c","t","i","o","n"," ","O","b","j","e","c","t","(",")"," ","{"," ","[","n","a","t","i","v","e"," ","c","o","d","e","]"," ","}">>)
 @@ (Name_proto :> <<"[","o","b","j","e","c","t"," ","O","b","j","e","c","t","]">>)
 @@ (Name_toString :> <<"f","u","n","c","t","i","o","n"," ","t","o","S","t","r","i","n","g","(",")"," ","{"," ","[","n","a","t","i","v","e"," ","c","o","d","e","]"," ","}">>)

\* AWS_SERVICE_PATTERNS[service]: the own value, else the inherited one (which
\* is truthy), else undefined
ServicePatternOf(service) ==
    IF service \in DOMAIN AWS_SERVICE_PATTERNS THEN Some(AWS_SERVICE_PATTERNS[service])
    ELSE IF service \in DOMAIN ObjectPrototype THEN Some(ObjectPrototype[service])
    ELSE None

\* The candidate url the search p is at
CurrentUrl(r, si, ui) ==
    getTroubleshootingUrls(ServicePatternOf(ServicesToSearch(r)[si])[1])[ui]

\* Mutant: an entry exactly CACHE_TTL old still counts as fresh
CacheFresh_Inclusive(c, url, clock) ==
    url \in DOMAIN c /\ clock - c[url].timestamp <= CACHE_TTL

\* contentCache.get(url) followed by the freshness test of fetchAwsDocContent
CacheFresh(c, url, clock) ==
    url \in DOMAIN c /\ clock - c[url].timestamp < CACHE_TTL

\* Mutant: a write leaves an entry that is present and fresh as it is
CacheSet_KeepFresh(c, url, content, clock) ==
    IF url \in DOMAIN c /\ clock - c[url].timestamp < CACHE_TTL
    THEN c
    ELSE [u \in DOMAIN c \cup {url} |->
            IF u = url THEN [content |-> content, timestamp |-> clock] ELSE c[u]]

\* contentCache.set(url, {content, timestamp})
CacheSet(c, url, content, clock) ==
    [u \in DOMAIN c \cup {url} |->
        IF u = url THEN [content |-> content, timestamp |-> clock] ELSE c[u]]

----------------------------------------------------------------------------
(* Strings and regular expressions of src/src/lib/utils.ts *)

WhiteSpace == {" ", "\t", "\n"}
Letters    == {UpperChars[k] : k \in 1..Len(UpperChars)} \cup {LowerChars[k] : k \in 1..Len(LowerChars)}
Digits     == {"0","1","2","3","4","5","6","7","8","9"}
WordChars  == Letters \cup Digits \cup {"_"}

Least(S) == CHOOSE x \in S : \A y \in S : x <= y
Most(S)  == CHOOSE x \in S : \A y \in S : x >= y

\* String.prototype.trim
Trim(s) ==
    LET inked == {i \in 1..Len(s) : s[i] \notin WhiteSpace}
    IN  IF inked = {} THEN << >> ELSE SubSeq(s, Least(inked), Most(inked))

\* s has w at index i
StartsWithAt(s, i, w) ==
    i >= 1 /\ i + Len(w) - 1 <= Len(s) /\ SubSeq(s, i, i + Len(w) - 1) = w

\* The least index >= from at which s has sub; 0 when there is none
IndexOf(s, sub, from) ==
    LET hits == {i \in from..(Len(s) - Len(sub) + 1) : StartsWithAt(s, i, sub)}
    IN  IF hits = {} THEN 0 ELSE Least(hits)

\* The last index of the longest run of characters of cls that starts at
\* index i (a greedy [cls]*); i - 1 when the run is empty
RunEnd(s, i, cls) ==
    LET stops == {j \in i..Len(s) : s[j] \notin cls}
    IN  IF stops = {} THEN Len(s) ELSE Least(stops) - 1

RECURSIVE StripTagsFrom(_, _)
\* s.replace(/<[^>]*>/g, "") from index pos on
StripTagsFrom(s, pos) ==
    LET i == IndexOf(s, <<"<">>, pos)
        j == IF i = 0 THEN 0 ELSE IndexOf(s, <<">">>, i + 1)
    IN  IF i = 0 \/ j = 0 THEN SubSeq(s, pos, Len(s))
        ELSE SubSeq(s, pos, i - 1) \o StripTagsFrom(s, j + 1)

\* x.replace(/<[^>]*>/g, "").trim()
CleanText(s) == Trim(StripTagsFrom(s, 1))

RECURSIVE TagMatches(_, _, _, _)
\* matchAll of /<open[^>]*>(.*?)<close>/gs from index pos on: for every match
\* the characters [^>]* took and the group, in document order
TagMatches(html, open, close, pos) ==
    LET i == IndexOf(html, open, pos)
        j == IF i = 0 THEN 0 ELSE IndexOf(html, <<">">>, i + Len(open))
        k == IF j = 0 THEN 0 ELSE IndexOf(html, close, j + 1)
    IN  IF k = 0 THEN << >>
        ELSE <<[attrs |-> SubSeq(html, i + Len(open), j - 1),
                inner |-> SubSeq(html, j + 1, k - 1)]>>
             \o TagMatches(html, open, close, k + Len(close))

Tag_ol      == <<"<","o","l">>
Tag_ol_end  == <<"<","/","o","l",">">>
Tag_li      == <<"<","l","i">>
Tag_li_end  == <<"<","/","l","i",">">>
Tag_code     == <<"<","c","o","d","e">>
Tag_code_end == <<"<","/","c","o","d","e",">">>
Tag_pre      == <<"<","p","r","e">>
Tag_pre_end  == <<"<","/","p","r","e",">">>

----------------------------------------------------------------------------
(* extractErrorsFromText *)

ErrorWords == {<<"e","r","r","o","r">>, <<"e","x","c","e","p","t","i","o","n">>, <<"f","a","i","l","u","r","e">>}

AwsErrorNames ==
    {<<"a","c","c","e","s","s","d","e","n","i","e","d">>,
     <<"f","o","r","b","i","d","d","e","n">>,
     <<"u","n","a","u","t","h","o","r","i","z","e","d">>,
     <<"i","n","v","a","l","i","d","r","e","q","u","e","s","t">>,
     <<"b","a","d","r","e","q","u","e","s","t">>}

Word_http  == <<"h","t","t","p">>
Word_error == <<"e","r","r","o","r">>

\* /(?:error|exception|failure)[\s:]*([A-Z][A-Za-z0-9_]*(?:[A-Z][A-Za-z0-9_]*)*)/gi
\* tried at index i: the group and the last index of the match
ErrorPattern1(text, low, i) ==
    LET kws  == {w \in ErrorWords : StartsWithAt(low, i, w)}
        kw   == CHOOSE w \in kws : TRUE
        a    == RunEnd(text, i + Len(kw), WhiteSpace \cup {":"}) + 1
        b    == RunEnd(text, a, WordChars)
    IN  IF kws = {} THEN None
        ELSE IF a > Len(text) \/ text[a] \notin Letters THEN None
        ELSE Some([error |-> SubSeq(text, a, b), end |-> b])

\* /HTTP\s+(\d{3})\s+([A-Za-z\s]+)/gi tried at index i
ErrorPattern2(text, low, i) ==
    LET w1  == RunEnd(text, i + 4, WhiteSpace)
        e   == RunEnd(text, w1 + 4, Letters \cup WhiteSpace)
    IN  IF ~ StartsWithAt(low, i, Word_http) THEN None
        ELSE IF w1 < i + 4 \/ w1 + 4 > Len(text) THEN None
        ELSE IF \E d \in 1..3 : text[w1 + d] \notin Digits THEN None
        ELSE IF text[w1 + 4] \notin WhiteSpace \/ e < w1 + 5 THEN None
        ELSE Some([error |-> SubSeq(text, w1 + 1, w1 + 3), end |-> e])

\* /AccessDenied|Forbidden|Unauthorized|InvalidRequest|BadRequest/gi tried at
\* index i; without a group the whole match is taken
ErrorPattern3(text, low, i) ==
    LET names == {w \in AwsErrorNames : StartsWithAt(low, i, w)}
        name  == CHOOSE w \in names : TRUE
    IN  IF names = {} THEN None
        ELSE Some([error |-> SubSeq(text, i, i + Len(name) - 1), end |-> i + Len(name) - 1])

\* /([A-Z_][A-Z0-9_]*ERROR[A-Z0-9_]*)/gi tried at index i
ErrorPattern4(text, low, i) ==
    LET e   == RunEnd(text, i + 1, WordChars)
    IN  IF text[i] \notin Letters \cup {"_"} THEN None
        ELSE IF \E q \in (i + 1)..(e - 4) : StartsWithAt(low, q, Word_error)
        THEN Some([error |-> SubSeq(text, i, e), end |-> e])
        ELSE None

\* errorPatterns[n] tried at index i
ErrorPatternAt(n, text, low, i) ==
    CASE n = 1 -> ErrorPattern1(text, low, i)
      [] n = 2 -> ErrorPattern2(text, low, i)
      [] n = 3 -> ErrorPattern3(text, low, i)
      [] n = 4 -> ErrorPattern4(text, low, i)

RECURSIVE ErrorMatches(_, _, _, _)
\* text.matchAll(errorPatterns[n]) from index pos on: match[1] || match[0] of
\* every match, in order
ErrorMatches(n, text, low, pos) ==
    LET starts == {i \in pos..Len(text) : ErrorPatternAt(n, text, low, i) # None}
        m      == ErrorPatternAt(n, text, low, Least(starts))[1]
    IN  IF starts = {} THEN << >>
        ELSE <<m.error>> \o ErrorMatches(n, text, low, m.end + 1)

\* array.includes(x)
Contains(array, x) == \E k \in 1..Len(array) : array[k] = x

\* Mutant: every match is pushed
PushError_Always(errors, error) ==
    IF error # << >> THEN Append(errors, Trim(error)) ELSE errors

\* if (error && !errors.includes(error)) errors.push(error.trim())
PushError(errors, error) ==
    IF error # << >> /\ ~ Contains(errors, error) THEN Append(errors, Trim(error)) ELSE errors

RECURSIVE PushErrors(_, _)
PushErrors(errors, found) ==
    IF found = << >> THEN errors
    ELSE PushErrors(PushError(errors, Head(found)), Tail(found))

extractErrorsFromText(text) ==
    LET low == ToLowerCase(text)
    IN  PushErrors(<< >>, ErrorMatches(1, text, low, 1) \o ErrorMatches(2, text, low, 1)
                          \o ErrorMatches(3, text, low, 1) \o ErrorMatches(4, text, low, 1))

----------------------------------------------------------------------------
(* extractCodeFromText and extractTroubleshootingSteps *)

\* html.match(/<open[^>]*>(.*?)<close>/s): the first match, or null
FirstTagMatch(html, open, close) ==
    LET i == IndexOf(html, open, 1)
        j == IF i = 0 THEN 0 ELSE IndexOf(html, <<">">>, i + Len(open))
        k == IF j = 0 THEN 0 ELSE IndexOf(html, close, j + 1)
    IN  IF k = 0 THEN None
        ELSE Some([attrs |-> SubSeq(html, i + Len(open), j - 1),
                   inner |-> SubSeq(html, j + 1, k - 1)])

\* code.length > 5 ? code : undefined
SubstantialCode(inner) ==
    LET code == CleanText(inner)
    IN  IF Len(code) > 5 THEN Some(code) ELSE None

extractCodeFromText(html) ==
    LET codeMatch == FirstTagMatch(html, Tag_code, Tag_code_end)
        preMatch  == FirstTagMatch(html, Tag_pre, Tag_pre_end)
    IN  IF codeMatch # None THEN SubstantialCode(codeMatch[1].inner)
        ELSE IF preMatch # None THEN SubstantialCode(preMatch[1].inner)
        ELSE None

Ellipsis == <<".",".",".">>

\* The step pushed for a list item
ListStep(stepNumber, itemContent) ==
    LET cleanText == CleanText(itemContent)
    IN  [step          |-> stepNumber,
         title         |-> IF Len(cleanText) > 100
                           THEN SubSeq(cleanText, 1, 100) \o Ellipsis ELSE cleanText,
         description   |-> cleanText,
         codeExample   |-> extractCodeFromText(itemContent),
         relatedErrors |-> extractErrorsFromText(cleanText)]

\* Mutant: an item that is dropped takes a number too
NextStepNumber_Always(stepNumber, kept) == stepNumber + 1

\* stepNumber after an item: stepNumber++ runs only in the push
NextStepNumber(stepNumber, kept) == IF kept THEN stepNumber + 1 ELSE stepNumber

RECURSIVE ItemSteps(_, _, _)
\* The inner loop of the list pass from item k on, stepNumber being the next number
ItemSteps(listItems, k, stepNumber) ==
    IF k > Len(listItems) THEN << >>
    ELSE LET itemContent == listItems[k].inner
             kept == Len(CleanText(itemContent)) > 10
         IN  (IF kept THEN <<ListStep(stepNumber, itemContent)>> ELSE << >>)
             \o ItemSteps(listItems, k + 1, NextStepNumber(stepNumber, kept))

RECURSIVE ListPass(_, _)
\* The outer loop of the list pass from list k on
ListPass(orderedListMatches, k) ==
    IF k > Len(orderedListMatches) THEN << >>
    ELSE ItemSteps(TagMatches(orderedListMatches[k].inner, Tag_li, Tag_li_end, 1), 1, 1)
         \o ListPass(orderedListMatches, k + 1)

ProcedureWords ==
    {<<"s","t","e","p">>, <<"p","r","o","c","e","d","u","r","e">>, <<"p","r","o","c","e","s","s">>, <<"s","o","l","u","t","i","o","n">>}

Tag_h     == <<"<","h">>
Tag_h_end == <<"<","/","h">>

\* low has <h[lo-hi] at index i
HeadingOpenAt(low, i, lo, hi) ==
    /\ StartsWithAt(low, i, Tag_h)
    /\ i + 2 <= Len(low)
    /\ low[i + 2] \in {"1","2","3","4","5","6"}
    /\ \E d \in lo..hi : low[i + 2] = <<"1","2","3","4","5","6">>[d]

\* low has <\/h[3-6]> at index i
HeadingCloseAt(low, i) ==
    /\ StartsWithAt(low, i, Tag_h_end)
    /\ i + 4 <= Len(low)
    /\ low[i + 3] \in {"3","4","5","6"}
    /\ low[i + 4] = ">"

RECURSIVE ProcedureMatches(_, _, _)
\* matchAll of
\* /<h[3-6][^>]*>.*?(?:step|procedure|process|solution).*?<\/h[3-6]>(.*?)(?=<h[1-6]|$)/gis
\* from index pos on: the group of every match, in document order
ProcedureMatches(html, low, pos) ==
    LET opens  == {i \in pos..Len(low) : HeadingOpenAt(low, i, 3, 6)
                                         /\ IndexOf(low, <<">">>, i + 3) # 0}
        i      == Least(opens)
        j      == IndexOf(low, <<">">>, i + 3)
        words  == {a \in (j + 1)..Len(low) : \E w \in ProcedureWords : StartsWithAt(low, a, w)}
        a      == Least(words)
        w      == CHOOSE x \in ProcedureWords : StartsWithAt(low, a, x)
        closes == {b \in (a + Len(w))..Len(low) : HeadingCloseAt(low, b)}
        b      == Least(closes)
        stops  == {c \in (b + 5)..Len(low) : HeadingOpenAt(low, c, 1, 6)}
        c      == IF stops = {} THEN Len(low) + 1 ELSE Least(stops)
    IN  IF opens = {} THEN << >>
        ELSE IF words = {} THEN << >>
        ELSE IF closes = {} THEN << >>
        ELSE <<SubSeq(html, b + 5, c - 1)>> \o ProcedureMatches(html, low, c)

\* Mutant: the sections are numbered on their own, from 1
ProcedureStepNumber_PerSection(steps, sectionsBefore) == sectionsBefore + 1

\* step: steps.length + 1
ProcedureStepNumber(steps, sectionsBefore) == Len(steps) + 1

\* The step pushed for a procedure section
ProcedureStep(stepNumber, content) ==
    LET cleanText == CleanText(content)
    IN  [step          |-> stepNumber,
         title         |-> <<"T","r","o","u","b","l","e","s","h","o","o","t","i","n","g"," ","P","r","o","c","e","d","u","r","e">>,
         description   |-> IF Len(cleanText) > 500
                           THEN SubSeq(cleanText, 1, 500) \o Ellipsis ELSE cleanText,
         codeExample   |-> extractCodeFromText(content),
         relatedErrors |-> extractErrorsFromText(cleanText)]

RECURSIVE HeadingPass(_, _, _)
\* The loop of the heading pass from match k on, steps being the steps so far
HeadingPass(steps, procedureMatches, k) ==
    IF k > Len(procedureMatches) THEN steps
    ELSE LET content == procedureMatches[k]
         IN  HeadingPass(IF Len(CleanText(content)) > 20
                         THEN Append(steps, ProcedureStep(ProcedureStepNumber(steps, k - 1), content))
                         ELSE steps,
                         procedureMatches, k + 1)

extractTroubleshootingSteps(html) ==
    HeadingPass(ListPass(TagMatches(html, Tag_ol, Tag_ol_end, 1), 1),
                ProcedureMatches(html, ToLowerCase(html), 1), 1)

----------------------------------------------------------------------------
(* extractCodeExamples *)

Attr_class == <<"c","l","a","s","s","=","\"">>
Word_lang  == <<"l","a","n","g","-">>
Lang_text  == <<"t","e","x","t">>

\* The optional group (?:class="[^"]*lang-([^"]*)[^"]*")? tried after the first
\* k characters of the tag: its capture, or null when it does not match there
LangGroupAt(attrs, k) ==
    LET open   == k + Len(Attr_class) + 1
        close  == IndexOf(attrs, <<"\"">>, open)
        langs  == {a \in open..(close - Len(Word_lang)) : StartsWithAt(attrs, a, Word_lang)}
    IN  IF ~ StartsWithAt(attrs, k + 1, Attr_class) \/ close = 0 \/ langs = {} THEN None
        ELSE Some(SubSeq(attrs, Most(langs) + Len(Word_lang), close - 1))

\* The number of characters of the tag the first [^>]* of
\* /<pre[^>]*(?:class="[^"]*lang-([^"]*)[^"]*")?[^>]*>(.*?)<\/pre>/gs holds in
\* the match: the quantifier is greedy and the group after it is optional, so
\* the first alternative tried, all characters up to the >, succeeds
PreTagSplit(attrs) == Len(attrs)

\* match[1] of a <pre> match
PreLangGroup(attrs) == LangGroupAt(attrs, PreTagSplit(attrs))

languageMap ==
    (<<"j","s">> :> <<"j","a","v","a","s","c","r","i","p","t">>)
 @@ (<<"t","s">> :> <<"t","y","p","e","s","c","r","i","p","t">>)
 @@ (<<"p","y">> :> <<"p","y","t","h","o","n">>)
 @@ (<<"r","b">> :> <<"r","u","b","y">>)
 @@ (<<"y","m","l">> :> <<"y","a","m","l">>)
 @@ (<<"m","d">> :> <<"m","a","r","k","d","o","w","n">>)
 @@ (<<"s","h">> :> <<"b","a","s","h">>)
 @@ (<<"s","h","e","l","l">> :> <<"b","a","s","h">>)

\* languageMap[lang?.toLowerCase()] || lang || "text"
mapLanguage(lang) ==
    IF ToLowerCase(lang) \in DOMAIN languageMap THEN languageMap[ToLowerCase(lang)]
    ELSE IF lang # << >> THEN lang
    ELSE Lang_text

detectLanguageFromCode(code) ==
    IF Includes(code, <<"a","w","s"," ">>) \/ Includes(code, <<"b","o","t","o","3">>)
       \/ Includes(code, <<"i","m","p","o","r","t"," ","b","o","t","o">>)
    THEN <<"p","y","t","h","o","n">>
    ELSE IF Includes(code, <<"A","W","S",".">>) \/ Includes(code, <<"a","w","s","-","s","d","k">>)
    THEN <<"j","a","v","a","s","c","r","i","p","t">>
    ELSE IF Includes(code, <<"#","!","/","b","i","n","/","b","a","s","h">>) \/ Includes(code, <<"c","u","r","l"," ">>)
            \/ Includes(code, <<"a","w","s"," ">>)
    THEN <<"b","a","s","h">>
    ELSE IF Includes(code, <<"{">>) /\ Includes(code, <<"}">>) /\ Includes(code, <<"\"">>)
    THEN <<"j","s","o","n">>
    ELSE IF Includes(code, <<"V","e","r","s","i","o","n",":">>) /\ Includes(code, <<"S","t","a","t","e","m","e","n","t",":">>)
    THEN <<"j","s","o","n">>
    ELSE Lang_text

\* The example pushed for a <pre> match
PreExample(match) ==
    LET group    == PreLangGroup(match.attrs)
        language == IF group = None \/ group[1] = << >> THEN Lang_text ELSE group[1]
    IN  [language    |-> mapLanguage(language),
         code        |-> CleanText(match.inner),
         description |-> <<"C","o","d","e"," ","e","x","a","m","p","l","e"," ","i","n"," ">> \o language,
         filename    |-> None]

\* The example pushed for a <code> match
InlineExample(match) ==
    LET code == CleanText(match.inner)
    IN  [language    |-> detectLanguageFromCode(code),
         code        |-> code,
         description |-> <<"I","n","l","i","n","e"," ","c","o","d","e"," ","s","n","i","p","p","e","t">>,
         filename    |-> None]

\* code.length > 20 && !code.includes(" ") === false
InlineKept(code) == Len(code) > 20 /\ ((~ Includes(code, <<" ">>)) = FALSE)

RECURSIVE PrePass(_, _)
PrePass(preMatches, k) ==
    IF k > Len(preMatches) THEN << >>
    ELSE (IF Len(CleanText(preMatches[k].inner)) > 5
          THEN <<PreExample(preMatches[k])>> ELSE << >>)
         \o PrePass(preMatches, k + 1)

RECURSIVE CodePass(_, _)
CodePass(codeMatches, k) ==
    IF k > Len(codeMatches) THEN << >>
    ELSE (IF InlineKept(CleanText(codeMatches[k].inner))
          THEN <<InlineExample(codeMatches[k])>> ELSE << >>)
         \o CodePass(codeMatches, k + 1)

extractCodeExamples(html) ==
    PrePass(TagMatches(html, Tag_pre, Tag_pre_end, 1), 1)
    \o CodePass(TagMatches(html, Tag_code, Tag_code_end, 1), 1)

----------------------------------------------------------------------------
(* The environment: requests of the callers and answers of the Fetcher *)

Query_iam == <<"i","a","m">>

\* A document that matches Query_iam by its title, and one that does not
PageA == [title |-> Some(<<"F","i","x"," ","I","A","M">>), description |-> <<>>, keywords |-> <<>>]
PageB == [title |-> Some(<<"A","u","t","h">>), description |-> <<>>, keywords |-> << <<"S","3">> >>]

\* Documents that match Query_iam by the description alone and by a keyword alone
PageC == [title |-> None, description |-> <<"U","s","e"," ","I","A","M"," ","r","o","l","e","s">>, keywords |-> <<>>]
PageD == [title |-> Some(<<"C","o","n","f","i","g">>), description |-> <<>>, keywords |-> << <<"S","3">>, <<"I","a","m">> >>]

\* A document that matches Query_iam and names the categories the chain of
\* parseAwsDocumentationHtml has no rule for
PageE == [title |-> Some(<<"I","A","M"," ","n","e","t","w","o","r","k"," ","p","e","r","f","o","r","m","a","n","c","e">>), description |-> <<"a","p","i","-","e","r","r","o","r","s">>, keywords |-> << <<"n","e","t","w","o","r","k">> >>]

Query_Role == <<"R","o","l","e">>

\* Service names a caller may write: configured ones in other letter case, and
\* one that is not configured
Name_IAM == <<"I","A","M">>
Name_S3  == <<"S","3">>
Name_sqs == <<"s","q","s">>

AwsRequests(services, categories, maxima) ==
    [provider : {ProviderAWS}, service : services, category : categories,
     query : {Query_iam}, maxResults : maxima]

OtherRequests ==
    [provider : {ProviderAZURE, ProviderGCP}, service : {None}, category : {Absent},
     query : {Query_iam}, maxResults : {None}]

\* The requests sent on the fixed web
FixedRequests ==
    [provider : {ProviderAWS}, service : {Some(Svc_iam), Some(Svc_s3)},
     category : {Absent, Cat_GENERAL}, query : {Query_iam, Query_Role},
     maxResults : {None}]

\* The requests a caller may send in this behaviour
Requests ==
    IF web = "fixed"
    THEN FixedRequests
    ELSE IF web = "names"
    THEN AwsRequests({Some(Name_IAM), Some(Name_S3), Some(Name_sqs), Some(Name_constructor),
                      Some(Name_toString)}, {Absent}, {None})
    ELSE IF web = "varied"
    THEN [provider : {ProviderAWS}, service : {Some(Svc_iam)},
          category : {Absent, Cat_GENERAL, Cat_CONFIGURATION, Cat_API_ERRORS,
                      Cat_NETWORK, Cat_PERFORMANCE},
          query : {Query_iam, Query_Role}, maxResults : {None}]
    ELSE IF web = "full"
    THEN AwsRequests({None, Some(Svc_iam)}, {Absent}, {None, Some(0), Some(1), Some(2), Some(8)})
    ELSE IF Cardinality(procs) = 1
    THEN AwsRequests({Some(Svc_iam)}, {Absent}, {None})
         \cup AwsRequests({Some(Svc_iam)}, {Cat_GENERAL}, {Some(1)})
         \cup OtherRequests
    ELSE AwsRequests({Some(Svc_iam)}, {Absent}, {None})

\* Flaky web: only these urls may answer 2xx, the first candidate pages of
\* every service (the first one alone when several searches run)
LiveUrls ==
    {getTroubleshootingUrls(AWS_SERVICE_PATTERNS[ServiceKeys[s]])[i] :
        s \in 1..Len(ServiceKeys),
        i \in 1..(IF Cardinality(procs) = 1 THEN MaxLivePatterns ELSE 1)}

FailedFetch == {"notfound", "httperr", "neterr"}

Answer(settle, kind, page) == [settle |-> settle, kind |-> kind, page |-> page]

\* Fixed web: what the fetch of the i-th candidate url of the s-th service
\* settles to and what its body yields, the same at every fetch; the
\* candidates of the services after the second do not exist
FixedAnswers ==
    << << Answer("ok", "parsed", PageA), Answer("ok", "parsed", PageC),
          Answer("notfound", "none", PageA), Answer("ok", "parsed", PageB),
          Answer("ok", "parsefail", PageA), Answer("httperr", "none", PageA),
          Answer("ok", "parsed", PageD) >>,
       << Answer("ok", "parsed", PageD), Answer("neterr", "none", PageA),
          Answer("ok", "parsed", PageA), Answer("notfound", "none", PageA),
          Answer("ok", "bodyerr", PageA), Answer("ok", "parsed", PageE),
          Answer("notfound", "none", PageA) >> >>

\* The urls the fixed web has an answer for
FixedUrls ==
    {getTroubleshootingUrls(AWS_SERVICE_PATTERNS[ServiceKeys[s]])[i] :
        s \in 1..Len(FixedAnswers), i \in 1..Len(troubleshootingPatterns)}

FixedTable ==
    [url \in FixedUrls |->
        LET si == CHOOSE x \in (1..Len(FixedAnswers)) \X (1..Len(troubleshootingPatterns)) :
                     url = getTroubleshootingUrls(AWS_SERVICE_PATTERNS[ServiceKeys[x[1]]])[x[2]]
        IN  FixedAnswers[si[1]][si[2]]]

\* The answer of the fixed web for url
FixedAnswer(url) ==
    IF url \in FixedUrls THEN FixedTable[url] ELSE Answer("notfound", "none", PageA)

\* Characters a host of a URL cannot hold
ForbiddenHostChars == {" ", "\t", "\n", "#", "<", ">", "@", "[", "]", "^", "|", "%"}

\* new URL(url) succeeds for an https url: its host, the characters between
\* "https://" and the first "/", is not empty and holds no forbidden character
ValidUrl(url) ==
    LET first == 9
        slash == IndexOf(url, <<"/">>, first)
        last  == IF slash = 0 THEN Len(url) ELSE slash - 1
    IN  /\ StartsWithAt(url, 1, <<"h","t","t","p","s",":","/","/">>)
        /\ last >= first
        /\ \A i \in first..last : url[i] \notin ForbiddenHostChars

\* What `await fetch(url)` may settle to; fetch rejects a url it cannot parse
SettleOutcomes(url) ==
    IF ~ ValidUrl(url) THEN {"neterr"}
    ELSE IF web = "fixed" THEN {FixedAnswer(url).settle}
    ELSE IF web = "full"
    THEN {"ok"} \cup (IF failures < MaxFailures THEN FailedFetch ELSE {})
    ELSE IF url \in LiveUrls THEN {"ok"} \cup FailedFetch ELSE {"notfound"}

\* What `await response.text()` and the parse may yield: the document is read
\* and parsed ("parsed"), reading it rejects ("bodyerr"), or the parse throws
\* and returns null ("parsefail")
BodyOutcomes(url) ==
    IF web = "fixed"
    THEN {[kind |-> FixedAnswer(url).kind, page |-> FixedAnswer(url).page]}
    ELSE IF web = "varied"
    THEN [kind : {"parsed"}, page : {PageA, PageB, PageC, PageD, PageE}]
         \cup [kind : {"parsefail"}, page : {PageA}]
    ELSE IF web = "full"
    THEN [kind : {"parsed"}, page : {PageA}]
         \cup (IF failures < MaxFailures
               THEN [kind : {"bodyerr", "parsefail"}, page : {PageA}] ELSE {})
    ELSE [kind : {"parsed"}, page : {PageA, PageB}]
         \cup [kind : {"bodyerr", "parsefail"}, page : {PageA}]

ClockStep == CACHE_TTL \div 2

NoReturn == [url |-> None, content |-> None, how |-> "none"]

----------------------------------------------------------------------------
(* Initial states *)

\* The module state when it is loaded: the cache c, no search started
InitProgram(w, ps, c) ==
    /\ cache = c
    /\ now = 0
    /\ ticks = 0
    /\ web = w
    /\ failures = 0
    /\ procs = ps
    /\ searches = 0
    /\ pc = [p \in Procs |-> "idle"]
    /\ req = [p \in Procs |-> None]
    /\ startTime = [p \in Procs |-> 0]
    /\ svcIdx = [p \in Procs |-> 1]
    /\ urlIdx = [p \in Procs |-> 1]
    /\ results = [p \in Procs |-> << >>]
    /\ svcResults = [p \in Procs |-> << >>]
    /\ inflight = [p \in Procs |-> {}]
    /\ fetchLog = [p \in Procs |-> << >>]
    /\ ret = [p \in Procs |-> NoReturn]
    /\ response = [p \in Procs |-> None]
    /\ lastParsed = [u \in DOMAIN c |-> c[u].content]

\* No call of a pure function is observed
NoCall == [fn |-> "none"]

InitWith(w, ps, c) ==
    /\ InitProgram(w, ps, c)
    /\ call = NoCall
    /\ result = None

Init == InitWith("flaky", {1}, << >>)

InitFull == InitWith("full", {1}, << >>)

\* One search at a time, on a web whose documents match a query by the title,
\* by the description, by a keyword, or not at all
InitVaried == InitWith("varied", {1}, << >>)

\* One search at a time, whose request names its service freely
InitNames == InitWith("names", {1}, << >>)

\* Two searches on the fixed web, the cache empty when the module is loaded;
\* the clock stands, so that every entry stays fresh
InitFixed == InitWith("fixed", Procs, << >>)

\* The cache after an earlier search has parsed the first iam page at time 0
SeededCache ==
    LET url == getTroubleshootingUrls(AWS_SERVICE_PATTERNS[Svc_iam])[1]
    IN  CacheSet(<< >>, url, parseAwsDocumentationHtml(PageB, url, 0), 0)

\* Two searches; the page they race for is cold, or cached earlier
InitConc == \E c \in {<< >>, SeededCache} : InitWith("flaky", Procs, c)

----------------------------------------------------------------------------
(* searchAwsDocs: the head of the service loop, run from index i with the     *)
(* accumulated results res, up to the next await or to the return             *)

RECURSIVE NextService(_, _, _)
\* The index of the service the loop enters next; past the end on exit or break
NextService(r, res, i) ==
    LET services == ServicesToSearch(r)
    IN  IF i > Len(services) THEN i
        ELSE IF Len(res) >= EffectiveMax(r) THEN Len(services) + 1
        ELSE IF ServicePatternOf(services[i]) = None THEN NextService(r, res, i + 1)
        ELSE i

\* Mutant: totalResults is the last index, not the length
AwsResponse_LastIndex(res, elapsed) ==
    [results |-> res, totalResults |-> IF Len(res) = 0 THEN 0 ELSE Len(res) - 1,
     searchTime |-> elapsed, error |-> None]

AwsResponse(res, elapsed) ==
    [results |-> res, totalResults |-> Len(res), searchTime |-> elapsed, error |-> None]

UnsupportedResponse(provider, elapsed) ==
    [results |-> << >>, totalResults |-> 0, searchTime |-> elapsed,
     error |-> Some(<<"Provider ", provider, " not yet supported">>)]

\* sres is the array the last call of searchServiceDocs returned (empty before
\* the first call); the next call starts with a new one
ServiceLoop(p, r, res, i, start, sres) ==
    LET j == NextService(r, res, i)
    IN  /\ results' = [results EXCEPT ![p] = res]
        /\ urlIdx' = [urlIdx EXCEPT ![p] = 1]
        /\ svcIdx' = [svcIdx EXCEPT ![p] = j]
        /\ IF j > Len(ServicesToSearch(r))
           THEN /\ pc' = [pc EXCEPT ![p] = "done"]
                /\ svcResults' = [svcResults EXCEPT ![p] = sres]
                /\ response' = [response EXCEPT ![p] = Some(AwsResponse(res, now - start))]
           ELSE /\ pc' = [pc EXCEPT ![p] = "probe"]
                /\ svcResults' = [svcResults EXCEPT ![p] = << >>]
                /\ response' = [response EXCEPT ![p] = None]

\* Mutant: every provider is sent to searchAwsDocs
IsSupportedProvider_Any(provider) == provider \in {ProviderAWS, ProviderAZURE, ProviderGCP}

\* searchRequest.provider === CloudProvider.AWS
IsSupportedProvider(provider) == provider = ProviderAWS

\* searchCloudProviderDocs is called with request r
StartSearch(p, r) ==
    /\ p \in procs
    /\ pc[p] = "idle" \/ (pc[p] = "done" /\ Cardinality(procs) = 1)
    /\ searches < MaxSearches
    /\ searches' = searches + 1
    /\ req' = [req EXCEPT ![p] = Some(r)]
    /\ startTime' = [startTime EXCEPT ![p] = now]
    /\ inflight' = [inflight EXCEPT ![p] = {}]
    /\ fetchLog' = [fetchLog EXCEPT ![p] = << >>]
    /\ ret' = [ret EXCEPT ![p] = NoReturn]
    /\ IF IsSupportedProvider(r.provider)
       THEN ServiceLoop(p, r, << >>, 1, now, << >>)
       ELSE /\ pc' = [pc EXCEPT ![p] = "done"]
            /\ response' = [response EXCEPT ![p] = Some(UnsupportedResponse(r.provider, 0))]
            /\ results' = [results EXCEPT ![p] = << >>]
            /\ svcResults' = [svcResults EXCEPT ![p] = << >>]
            /\ svcIdx' = [svcIdx EXCEPT ![p] = 1]
            /\ urlIdx' = [urlIdx EXCEPT ![p] = 1]
    /\ UNCHANGED <<cache, now, ticks, web, failures, procs, lastParsed>>
    /\ UNCHANGED <<call, result>>

\* Mutant: a match is put in front of the earlier matches
Return_Prepend(p, url, content, how) ==
    LET r == req[p][1]
    IN  /\ ret' = [ret EXCEPT ![p] = [url |-> Some(url), content |-> content, how |-> how]]
        /\ svcResults' = [svcResults EXCEPT ![p] =
              IF content # None /\ contentMatchesQuery(content[1], r.query, r.category)
              THEN <<content[1]>> \o @ ELSE @]
        /\ IF urlIdx[p] < Len(troubleshootingPatterns)
           THEN /\ urlIdx' = [urlIdx EXCEPT ![p] = @ + 1]
                /\ pc' = [pc EXCEPT ![p] = "probe"]
           ELSE /\ urlIdx' = urlIdx
                /\ pc' = [pc EXCEPT ![p] = "svcdone"]

\* Mutant: a candidate whose fetch failed is tried a second time
Return_RetryOnce(p, url, content, how) ==
    LET r == req[p][1]
        again == /\ content = None
                 /\ Cardinality({k \in 1..Len(fetchLog[p]) : fetchLog[p][k] = url}) = 1
    IN  /\ ret' = [ret EXCEPT ![p] = [url |-> Some(url), content |-> content, how |-> how]]
        /\ svcResults' = [svcResults EXCEPT ![p] =
              IF content # None /\ contentMatchesQuery(content[1], r.query, r.category)
              THEN Append(@, content[1]) ELSE @]
        /\ IF again
           THEN /\ urlIdx' = urlIdx
                /\ pc' = [pc EXCEPT ![p] = "probe"]
           ELSE IF urlIdx[p] < Len(troubleshootingPatterns)
           THEN /\ urlIdx' = [urlIdx EXCEPT ![p] = @ + 1]
                /\ pc' = [pc EXCEPT ![p] = "probe"]
           ELSE /\ urlIdx' = urlIdx
                /\ pc' = [pc EXCEPT ![p] = "svcdone"]

\* Mutant: a failed candidate ends the pass over the service's candidates
Return_Abort(p, url, content, how) ==
    LET r == req[p][1]
    IN  /\ ret' = [ret EXCEPT ![p] = [url |-> Some(url), content |-> content, how |-> how]]
        /\ svcResults' = [svcResults EXCEPT ![p] =
              IF content # None /\ contentMatchesQuery(content[1], r.query, r.category)
              THEN Append(@, content[1]) ELSE @]
        /\ IF urlIdx[p] < Len(troubleshootingPatterns) /\ content # None
           THEN /\ urlIdx' = [urlIdx EXCEPT ![p] = @ + 1]
                /\ pc' = [pc EXCEPT ![p] = "probe"]
           ELSE /\ urlIdx' = urlIdx
                /\ pc' = [pc EXCEPT ![p] = "svcdone"]

\* Mutant: the pass over the candidates ends once the matches fill the room
\* that is left under maxResults
Return_StopWhenFull(p, url, content, how) ==
    LET r == req[p][1]
        kept == IF content # None /\ contentMatchesQuery(content[1], r.query, r.category)
                THEN Append(svcResults[p], content[1]) ELSE svcResults[p]
    IN  /\ ret' = [ret EXCEPT ![p] = [url |-> Some(url), content |-> content, how |-> how]]
        /\ svcResults' = [svcResults EXCEPT ![p] = kept]
        /\ IF urlIdx[p] < Len(troubleshootingPatterns)
              /\ Len(results[p]) + Len(kept) < EffectiveMax(r)
           THEN /\ urlIdx' = [urlIdx EXCEPT ![p] = @ + 1]
                /\ pc' = [pc EXCEPT ![p] = "probe"]
           ELSE /\ urlIdx' = urlIdx
                /\ pc' = [pc EXCEPT ![p] = "svcdone"]

\* Mutant: a record that comes from the cache is pushed without the filter
Return_HitUnfiltered(p, url, content, how) ==
    LET r == req[p][1]
    IN  /\ ret' = [ret EXCEPT ![p] = [url |-> Some(url), content |-> content, how |-> how]]
        /\ svcResults' = [svcResults EXCEPT ![p] =
              IF content # None
                 /\ (how = "hit" \/ contentMatchesQuery(content[1], r.query, r.category))
              THEN Append(@, content[1]) ELSE @]
        /\ IF urlIdx[p] < Len(troubleshootingPatterns)
           THEN /\ urlIdx' = [urlIdx EXCEPT ![p] = @ + 1]
                /\ pc' = [pc EXCEPT ![p] = "probe"]
           ELSE /\ urlIdx' = urlIdx
                /\ pc' = [pc EXCEPT ![p] = "svcdone"]

\* fetchAwsDocContent returns content for url to searchServiceDocs, which
\* filters it, pushes it and moves to the next candidate url
Return(p, url, content, how) ==
    LET r == req[p][1]
    IN  /\ ret' = [ret EXCEPT ![p] = [url |-> Some(url), content |-> content, how |-> how]]
        /\ svcResults' = [svcResults EXCEPT ![p] =
              IF content # None /\ contentMatchesQuery(content[1], r.query, r.category)
              THEN Append(@, content[1]) ELSE @]
        /\ IF urlIdx[p] < Len(troubleshootingPatterns)
           THEN /\ urlIdx' = [urlIdx EXCEPT ![p] = @ + 1]
                /\ pc' = [pc EXCEPT ![p] = "probe"]
           ELSE /\ urlIdx' = urlIdx
                /\ pc' = [pc EXCEPT ![p] = "svcdone"]

\* fetchAwsDocContent(url) up to its first await: the cache lookup, then
\* either the cached content or the fetch
Probe(p) ==
    /\ p \in procs
    /\ pc[p] = "probe"
    /\ LET url == CurrentUrl(req[p][1], svcIdx[p], urlIdx[p])
       IN  IF CacheFresh(cache, url, now)
           THEN /\ Return(p, url, Some(cache[url].content), "hit")
                /\ UNCHANGED <<inflight, fetchLog>>
           ELSE /\ pc' = [pc EXCEPT ![p] = "fetching"]
                /\ inflight' = [inflight EXCEPT ![p] = @ \cup {url}]
                /\ fetchLog' = [fetchLog EXCEPT ![p] = Append(@, url)]
                /\ ret' = [ret EXCEPT ![p] = NoReturn]
                /\ UNCHANGED <<svcResults, urlIdx>>
    /\ UNCHANGED <<cache, now, ticks, web, failures, procs, searches, req, startTime,
                   svcIdx, results, response, lastParsed>>
    /\ UNCHANGED <<call, result>>

\* Mutant: a fetch that fails evicts the entry of its url
FetchSettle_Evict(p) ==
    /\ p \in procs
    /\ pc[p] = "fetching"
    /\ LET url == CurrentUrl(req[p][1], svcIdx[p], urlIdx[p])
       IN  \E o \in SettleOutcomes(url) :
              IF o = "ok"
              THEN /\ pc' = [pc EXCEPT ![p] = "reading"]
                   /\ UNCHANGED <<inflight, ret, svcResults, urlIdx, failures, cache>>
              ELSE /\ Return(p, url, None, o)
                   /\ inflight' = [inflight EXCEPT ![p] = @ \ {url}]
                   /\ failures' = IF web = "full" THEN failures + 1 ELSE failures
                   /\ cache' = [u \in DOMAIN cache \ {url} |-> cache[u]]
    /\ UNCHANGED <<now, ticks, web, procs, searches, req, startTime, svcIdx,
                   results, fetchLog, response, lastParsed>>
    /\ UNCHANGED <<call, result>>

\* `await fetch(url)` settles
FetchSettle(p) ==
    /\ p \in procs
    /\ pc[p] = "fetching"
    /\ LET url == CurrentUrl(req[p][1], svcIdx[p], urlIdx[p])
       IN  \E o \in SettleOutcomes(url) :
              IF o = "ok"
              THEN /\ pc' = [pc EXCEPT ![p] = "reading"]
                   /\ UNCHANGED <<inflight, ret, svcResults, urlIdx, failures>>
              ELSE /\ Return(p, url, None, o)
                   /\ inflight' = [inflight EXCEPT ![p] = @ \ {url}]
                   /\ failures' = IF web = "full" THEN failures + 1 ELSE failures
    /\ UNCHANGED <<cache, now, ticks, web, procs, searches, req, startTime, svcIdx,
                   results, fetchLog, response, lastParsed>>
    /\ UNCHANGED <<call, result>>

\* `await response.text()` settles; the document is parsed and cached
ReadBody(p) ==
    /\ p \in procs
    /\ pc[p] = "reading"
    /\ LET url == CurrentUrl(req[p][1], svcIdx[p], urlIdx[p])
       IN  \E o \in BodyOutcomes(url) :
              IF o.kind = "parsed"
              THEN LET content == parseAwsDocumentationHtml(o.page, url, now)
                   IN  /\ cache' = CacheSet(cache, url, content, now)
                       /\ lastParsed' = [u \in DOMAIN lastParsed \cup {url} |->
                                            IF u = url THEN content ELSE lastParsed[u]]
                       /\ Return(p, url, Some(content), "parsed")
                       /\ UNCHANGED failures
              ELSE /\ Return(p, url, None, o.kind)
                   /\ failures' = IF web = "full" THEN failures + 1 ELSE failures
                   /\ UNCHANGED <<cache, lastParsed>>
    /\ inflight' = [inflight EXCEPT ![p] =
                       @ \ {CurrentUrl(req[p][1], svcIdx[p], urlIdx[p])}]
    /\ UNCHANGED <<now, ticks, web, procs, searches, req, startTime, svcIdx,
                   results, fetchLog, response>>
    /\ UNCHANGED <<call, result>>

\* searchServiceDocs has returned: searchAwsDocs pushes the slice and goes on
ServiceReturn(p) ==
    /\ p \in procs
    /\ pc[p] = "svcdone"
    /\ LET r == req[p][1]
           res == results[p] \o Slice0(svcResults[p], EffectiveMax(r) - Len(results[p]))
       IN  ServiceLoop(p, r, res, svcIdx[p] + 1, startTime[p], svcResults[p])
    /\ UNCHANGED <<cache, now, ticks, web, failures, procs, searches, req, startTime,
                   inflight, fetchLog, ret, lastParsed>>
    /\ UNCHANGED <<call, result>>

\* Time passes
Tick ==
    /\ ticks < MaxTicks
    /\ ticks' = ticks + 1
    /\ now' = now + ClockStep
    /\ UNCHANGED <<cache, web, failures, procs, searches, pc, req, startTime, svcIdx,
                   urlIdx, results, svcResults, inflight, fetchLog, ret, response,
                   lastParsed>>
    /\ UNCHANGED <<call, result>>

Step ==
    \/ \E p \in Procs : \E r \in Requests : StartSearch(p, r)
    \/ \E p \in Procs : Probe(p)
    \/ \E p \in Procs : FetchSettle(p)
    \/ \E p \in Procs : ReadBody(p)
    \/ \E p \in Procs : ServiceReturn(p)

Next == Step \/ Tick

Spec == Init /\ [][Next]_vars

SpecFull == InitFull /\ [][Step]_vars

SpecConc == InitConc /\ [][Next]_vars

SpecVaried == InitVaried /\ [][Next]_vars

SpecNames == InitNames /\ [][Next]_vars

SpecFixed == InitFixed /\ [][Step]_vars

\* The continuation of an await runs once the awaited promise has settled, and
\* every fetch and every body read settles
Continue == \E p \in Procs : Probe(p) \/ FetchSettle(p) \/ ServiceReturn(p)

BodyRead == \E p \in Procs : ReadBody(p)

\* A search awaits response.text(): the state predicate that ENABLED <<BodyRead>>_vars is
AwaitingBody == \E p \in procs : pc[p] = "reading"

\* Weak fairness of Continue and of BodyRead, the latter with its enabling
\* condition written out
Fairness ==
    /\ WF_vars(Continue)
    /\ []<>(~ AwaitingBody) \/ []<><<BodyRead>>_vars

SpecFullLive == InitFull /\ [][Step]_vars /\ Fairness

----------------------------------------------------------------------------
(* Calls of the pure functions: the arguments are drawn in the initial     *)
(* state, the step of the call stores the returned value                   *)

\* <title> texts of the documents that are parsed
Titles ==
    {None,
     Some(<<"A","c","c","e","s","s"," ","D","e","n","i","e","d">>),
     Some(<<"P","e","r","m","i","s","s","i","o","n"," ","a","n","d"," ","A","u","t","h"," ","c","o","n","f","i","g">>),
     Some(<<"A","u","t","h","e","n","t","i","c","a","t","i","o","n"," ","c","o","n","f","i","g">>),
     Some(<<"C","o","n","f","i","g","u","r","a","t","i","o","n">>),
     Some(<<"O","v","e","r","v","i","e","w">>),
     Some(<<"A","C","C","E","S","S"," ","D","E","N","I","E","D"," ","f","o","r"," ","c","o","n","f","i","g">>),
     Some(<<"U","n","a","u","t","h","o","r","i","z","e","d">>)}

ParseCalls ==
    [fn : {"parseAwsDocumentationHtml"},
     page : [title : Titles, description : {<<>>}, keywords : {<<>>}],
     url : {getTroubleshootingUrls(AWS_SERVICE_PATTERNS[Svc_iam])[i] :
               i \in 1..Len(troubleshootingPatterns)}]

\* A call drawn from calls is about to be made
InitCall(calls) ==
    /\ InitProgram("flaky", {1}, << >>)
    /\ call \in calls
    /\ result = None

InitPure == InitCall(ParseCalls)

\* The call returns value
Returns(value) ==
    /\ result = None
    /\ result' = Some(value)
    /\ UNCHANGED <<cache, now, ticks, web, failures, procs, searches, pc, req,
                   startTime, svcIdx, urlIdx, results, svcResults, inflight,
                   fetchLog, ret, response, lastParsed, call>>

Call_parseAwsDocumentationHtml ==
    /\ call.fn = "parseAwsDocumentationHtml"
    /\ Returns(parseAwsDocumentationHtml(call.page, call.url, now))

NextPure == Call_parseAwsDocumentationHtml

SpecPure == InitPure /\ [][NextPure]_vars

\* Phrases of the texts searched for error names
ErrorPhrases ==
    {<<"E","r","r","o","r",":"," ","A","c","c","e","s","s","D","e","n","i","e","d"," ","w","h","i","l","e"," ","c","a","l","l","i","n","g"," ","P","u","t","O","b","j","e","c","t">>,
     <<"e","r","r","o","r",":"," ","A","c","c","e","s","s","D","e","n","i","e","d"," ","a","g","a","i","n">>,
     <<"H","T","T","P"," ","4","0","3"," ","F","o","r","b","i","d","d","e","n">>,
     <<"f","a","i","l","u","r","e",":"," ","M","Y","_","E","R","R","O","R","_","C","O","D","E">>,
     <<"M","Y","_","E","R","R","O","R","_","C","O","D","E">>,
     <<"a","c","c","e","s","s","d","e","n","i","e","d">>,
     <<"N","o"," ","p","r","o","b","l","e","m","s"," "," ","h","e","r","e">>,
     <<"e","x","c","e","p","t","i","o","n"," ","T","h","r","o","t","t","l","i","n","g","E","r","r","o","r",":"," ","B","a","d","R","e","q","u","e","s","t">>}

ErrorCalls ==
    [fn : {"extractErrorsFromText"},
     text : {a \o <<" ">> \o b : a \in ErrorPhrases, b \in ErrorPhrases}]

InitErrors == InitCall(ErrorCalls)

Call_extractErrorsFromText ==
    /\ call.fn = "extractErrorsFromText"
    /\ Returns(extractErrorsFromText(call.text))

NextErrors == Call_extractErrorsFromText

SpecErrors == InitErrors /\ [][NextErrors]_vars

\* Fragments of the documents searched for steps: ordered lists with items of
\* 10 characters or less at the head, in the middle and at the end, headings of
\* levels 2 to 5 with and without a procedure word, body text with one
LeadFragments ==
    {<< >>,
     <<"<","o","l",">","<","l","i",">","O","p","e","n"," ","t","h","e"," ","I","A","M"," ","c","o","n","s","o","l","e","<","/","l","i",">","<","l","i",">","G","o","<","/","l","i",">","<","l","i",">","C","h","o","o","s","e"," ","<","b",">","U","s","e","r","s","<","/","b",">"," ","i","n"," ","t","h","e"," ","p","a","n","e","<","/","l","i",">","<","/","o","l",">">>,
     <<"<","o","l"," ","c","l","a","s","s","=","\"","s","t","e","p","s","\"",">","<","l","i",">","o","k","<","/","l","i",">","<","l","i",">","E","r","r","o","r",":"," ","A","c","c","e","s","s","D","e","n","i","e","d"," ","m","e","a","n","s"," ","n","o"," ","a","c","c","e","s","s","<","/","l","i",">","<","l","i",">"," "," ","G","o"," ","o","n"," "," "," "," ","<","/","l","i",">","<","/","o","l",">">>,
     <<"<","o","l",">","<","l","i",">","<","b",">","x","<","/","b",">","<","/","l","i",">","<","/","o","l",">">>}

MidFragments ==
    {<< >>,
     <<"<","h","3",">","R","e","s","o","l","u","t","i","o","n"," ","s","t","e","p","s","<","/","h","3",">","<","p",">","C","h","e","c","k"," ","t","h","e"," ","p","o","l","i","c","y"," ","a","t","t","a","c","h","e","d"," ","t","o"," ","t","h","e"," ","r","o","l","e","<","/","p",">">>,
     <<"<","h","3",">","O","v","e","r","v","i","e","w","<","/","h","3",">","<","p",">","T","h","e"," ","p","r","o","c","e","s","s"," ","i","s"," ","s","i","m","p","l","e","<","/","p",">","<","h","4",">","D","e","t","a","i","l","s","<","/","h","4",">","<","p",">","R","e","v","i","e","w"," ","t","h","e"," ","t","r","u","s","t"," ","p","o","l","i","c","y"," ","o","f"," ","t","h","e"," ","r","o","l","e","<","/","p",">">>,
     <<"<","h","2",">","S","o","l","u","t","i","o","n","<","/","h","2",">","<","p",">","A","t","t","a","c","h"," ","t","h","e"," ","m","i","s","s","i","n","g"," ","p","o","l","i","c","y"," ","t","o"," ","t","h","e"," ","u","s","e","r","<","/","p",">">>,
     <<"<","h","4",">","N","e","x","t"," ","S","t","e","p","s","<","/","h","4",">","<","p",">","s","h","o","r","t","<","/","p",">">>,
     <<"<","p",">","N","o"," ","p","r","o","c","e","d","u","r","e"," ","i","s"," ","n","e","e","d","e","d"," ","f","o","r"," ","<","c","o","d","e",">","a","w","s"," ","s","t","s"," ","g","e","t","-","c","a","l","l","e","r","-","i","d","e","n","t","i","t","y","<","/","c","o","d","e",">","<","/","p",">">>}

TailFragments ==
    {<< >>,
     <<"<","o","l",">","<","l","i",">","S","i","g","n"," ","i","n"," ","a","g","a","i","n"," ","a","s"," ","t","h","e"," ","r","o","o","t"," ","u","s","e","r","<","/","l","i",">","<","/","o","l",">">>,
     <<"<","h","5",">","S","o","l","u","t","i","o","n","<","/","h","5",">","<","p","r","e",">","a","w","s"," ","i","a","m"," ","l","i","s","t","-","r","o","l","e","s","<","/","p","r","e",">","<","p",">","R","u","n"," ","i","t"," ","a","n","d"," ","c","o","m","p","a","r","e"," ","t","h","e"," ","r","o","l","e"," ","n","a","m","e","s","<","/","p",">">>,
     <<"<","h","3",">","S","e","e"," ","a","l","s","o","<","/","h","3",">","<","p",">","O","t","h","e","r"," ","p","a","g","e","s"," ","o","f"," ","t","h","i","s"," ","g","u","i","d","e","<","/","p",">">>}

StepsCalls ==
    [fn : {"extractTroubleshootingSteps"},
     html : {a \o b \o c : a \in LeadFragments, b \in MidFragments, c \in TailFragments}]

InitSteps == InitCall(StepsCalls)

Call_extractTroubleshootingSteps ==
    /\ call.fn = "extractTroubleshootingSteps"
    /\ Returns(extractTroubleshootingSteps(call.html))

NextSteps == Call_extractTroubleshootingSteps

SpecSteps == InitSteps /\ [][NextSteps]_vars

\* Fragments of the documents searched for code: <pre> blocks with and without
\* a lang- class token, <code> elements of 2 to 29 characters, with and without
\* a space
PreFragments ==
    {<< >>,
     <<"<","p","r","e"," ","c","l","a","s","s","=","\"","l","a","n","g","-","p","y","\"",">","p","r","i","n","t","(","1",")","<","/","p","r","e",">">>,
     <<"<","p","r","e",">","a","w","s"," ","i","a","m"," ","l","i","s","t","-","r","o","l","e","s","<","/","p","r","e",">">>,
     <<"<","p","r","e"," ","c","l","a","s","s","=","\"","c","o","d","e"," ","l","a","n","g","-","j","s"," ","h","l","\"",">","A","W","S",".","c","o","n","f","i","g",".","u","p","d","a","t","e","(","{","}",")","<","/","p","r","e",">">>,
     <<"<","p","r","e"," ","c","l","a","s","s","=","\"","l","a","n","g","-","y","a","m","l","\"",">","a",":"," ","1","<","/","p","r","e",">">>,
     <<"<","p","r","e"," ","c","l","a","s","s","=","\"","p","l","a","i","n","\"",">","<","s","p","a","n",">","e","c","h","o","<","/","s","p","a","n",">"," ","\"","h","e","l","l","o","\"","<","/","p","r","e",">">>}

CodeFragments ==
    {<< >>,
     <<"<","c","o","d","e",">","l","s","<","/","c","o","d","e",">">>,
     <<"<","c","o","d","e",">","a","w","s","-","s","d","k","-","f","o","r","-","j","a","v","a","s","c","r","i","p","t","-","v","3","<","/","c","o","d","e",">">>,
     <<"<","c","o","d","e",">","a","w","s"," ","s","3"," ","l","s"," ","s","3",":","/","/","m","y","-","b","u","c","k","e","t","-","n","a","m","e","<","/","c","o","d","e",">">>,
     <<"<","c","o","d","e",">","{","\"","V","e","r","s","i","o","n","\"",":"," ","\"","2","0","1","2","-","1","0","-","1","7","\"","}","<","/","c","o","d","e",">">>,
     <<"<","c","o","d","e"," ","c","l","a","s","s","=","\"","a","p","i","\"",">","G","e","t","O","b","j","e","c","t","<","/","c","o","d","e",">">>}

CodeDocuments ==
    {p \o c : p \in PreFragments, c \in CodeFragments}
    \cup {c \o p : p \in PreFragments, c \in CodeFragments}

CodeCalls ==
    [fn : {"extractCodeExamples", "extractCodeFromText"}, html : CodeDocuments]

InitCode == InitCall(CodeCalls)

Call_extractCodeExamples ==
    /\ call.fn = "extractCodeExamples"
    /\ Returns(extractCodeExamples(call.html))

Call_extractCodeFromText ==
    /\ call.fn = "extractCodeFromText"
    /\ Returns(extractCodeFromText(call.html))

NextCode ==
    \/ Call_extractCodeExamples
    \/ Call_extractCodeFromText

SpecCode == InitCode /\ [][NextCode]_vars

----------------------------------------------------------------------------
(* Properties *)

\* The candidate url search p is at
UrlAt(p) == CurrentUrl(req[p][1], svcIdx[p], urlIdx[p])

\* This step is search p calling fetchAwsDocContent
ProbeStepOf(p) ==
    pc[p] = "probe" /\ (pc'[p] # "probe" \/ urlIdx'[p] # urlIdx[p])

\* This step is a fetch of search p coming back to searchServiceDocs
FetchReturnOf(p) ==
    pc[p] \in {"fetching", "reading"} /\ pc'[p] \notin {"fetching", "reading"}

FailureKinds == {"notfound", "httperr", "neterr", "bodyerr", "parsefail"}

TwelveHours == 12 * 60 * 60 * 1000

\* C1: fetchAwsDocContent returns the cached entry of a url, without a fetch,
\* exactly when now - storedAt < 12 hours; an entry of age >= 12 hours is never
\* returned: the url is fetched again, and when that fetch fails (404 or any
\* other failure) the result is absent, not the stale record.
C1_CacheTtl ==
    [][\A p \in Procs :
        /\ ProbeStepOf(p) =>
              LET u == UrlAt(p)
              IN  IF u \in DOMAIN cache /\ now - cache[u].timestamp < TwelveHours
                  THEN /\ ret'[p] = [url |-> Some(u), content |-> Some(cache[u].content),
                                     how |-> "hit"]
                       /\ fetchLog'[p] = fetchLog[p]
                       /\ inflight'[p] = {}
                  ELSE /\ pc'[p] = "fetching"
                       /\ fetchLog'[p] = Append(fetchLog[p], u)
                       /\ inflight'[p] = {u}
                       /\ ret'[p] = NoReturn
        /\ FetchReturnOf(p) =>
              LET u == UrlAt(p)
              IN  /\ ret'[p].url = Some(u)
                  /\ ret'[p].how \in FailureKinds \cup {"parsed"}
                  /\ ret'[p].how \in FailureKinds => ret'[p].content = None
                  /\ ret'[p].how = "parsed" =>
                        /\ ret'[p].content = Some(cache'[u].content)
                        /\ cache'[u].timestamp = now
      ]_vars

\* C1 witness: the entry of a url is 12 hours old or older, the url was fetched
\* again, the fetch failed and the result is absent
C1_Witness ==
    \E p \in Procs :
        /\ ret[p].how \in FailureKinds
        /\ ret[p].content = None
        /\ ret[p].url # None
        /\ ret[p].url[1] \in DOMAIN cache
        /\ now - cache[ret[p].url[1]].timestamp >= TwelveHours
        /\ \E k \in 1..Len(fetchLog[p]) : fetchLog[p][k] = ret[p].url[1]


\* The cap a request asks for: maxResults, or 10 when it is omitted
RequestedCap(r) == IF r.maxResults = None THEN 10 ELSE r.maxResults[1]

\* C2: the results list of a response has at most maxResults entries, for every
\* maxResults of the request (0 included), and at most 10 when it is omitted.
C2_CapAtMaxResults ==
    \A p \in Procs :
        (response[p] # None /\ req[p][1].provider = ProviderAWS)
            => Len(response[p][1].results) <= RequestedCap(req[p][1])

\* This step is searchServiceDocs of search p coming back to searchAwsDocs
ServiceReturnOf(p) == pc[p] = "svcdone" /\ pc'[p] # "svcdone"

\* The room left under the cap when a service comes back
Room(p) == EffectiveMax(req[p][1]) - Len(results[p])

\* C3 as stated: a service with more matching candidates than the remaining
\* room pushes the result count past maxResults.
C3_Overshoot ==
    [][\A p \in Procs :
        (ServiceReturnOf(p) /\ Len(svcResults[p]) > Room(p))
            => Len(results'[p]) > EffectiveMax(req[p][1])
      ]_vars

\* C3 amended: the cap is tested between services only, but the matches of a
\* service are cut to the remaining room when they are appended, so the result
\* count never exceeds maxResults || 10, also for a service with more matching
\* candidates than the remaining room.
C3_SliceToRoom ==
    [][\A p \in Procs :
        ServiceReturnOf(p) =>
            /\ Len(svcResults[p]) > Room(p) =>
                  /\ Len(results'[p]) = EffectiveMax(req[p][1])
                  /\ results'[p] = results[p] \o SubSeq(svcResults[p], 1, Room(p))
            /\ Len(svcResults[p]) <= Room(p) => results'[p] = results[p] \o svcResults[p]
      ]_vars

\* C3 witness: a service came back with more matches than the room left and
\* the response carries exactly maxResults results
C3_Witness ==
    \E p \in Procs :
        /\ pc[p] = "done" /\ response[p] # None
        /\ req[p][1].maxResults = Some(2)
        /\ Len(svcResults[p]) > 2
        /\ Len(response[p][1].results) = 2

\* C4: a search for any provider but aws returns no results, totalResults 0
\* and a non-empty error string; it issues no fetch, never calls
\* fetchAwsDocContent (the only code that reads or writes the cache) and
\* leaves the cache as it is.
C4_UnsupportedProvider ==
    /\ [](\A p \in Procs :
            (req[p] # None /\ req[p][1].provider # ProviderAWS) =>
                /\ pc[p] = "done"
                /\ response[p] # None
                /\ response[p][1].results = << >>
                /\ response[p][1].totalResults = 0
                /\ response[p][1].error # None
                /\ \E k \in 1..Len(response[p][1].error[1]) : response[p][1].error[1][k] # ""
                /\ fetchLog[p] = << >>
                /\ inflight[p] = {}
                /\ ret[p] = NoReturn)
    /\ [][\A p \in Procs :
            (req'[p] # None /\ req'[p][1].provider # ProviderAWS /\ pc[p] # pc'[p])
                => cache' = cache
         ]_vars

\* C4 witness: an azure or gcp search has answered while the cache holds an entry
C4_Witness ==
    \E p \in Procs :
        /\ req[p] # None /\ req[p][1].provider \in {ProviderAZURE, ProviderGCP}
        /\ response[p] # None /\ response[p][1].error # None
        /\ DOMAIN cache # {}

----------------------------------------------------------------------------
(* The enumeration order of the candidate urls *)

RECURSIVE AllUrlsFrom(_)
AllUrlsFrom(s) ==
    IF s > Len(ServiceKeys) THEN << >>
    ELSE getTroubleshootingUrls(AWS_SERVICE_PATTERNS[ServiceKeys[s]]) \o AllUrlsFrom(s + 1)

AllUrls == AllUrlsFrom(1)

\* Position of a candidate url in the enumeration: services in key order,
\* then the candidates of a service in list order
UrlRank(u) == CHOOSE k \in 1..Len(AllUrls) : AllUrls[k] = u

ServiceRank(u) == ((UrlRank(u) - 1) \div Len(troubleshootingPatterns)) + 1

ResultUrls(res) == {res[k].url : k \in 1..Len(res)}

\* C5: a candidate url whose fetch answers 404 or another non-2xx status, fails
\* in transport, or whose page fails to parse adds no result and sets no error;
\* the next candidate of the service, and after the last one the next service,
\* is processed as usual; an aws response never carries an error string.
C5_SkipAndContinue ==
    /\ [](\A p \in Procs :
            (response[p] # None /\ req[p][1].provider = ProviderAWS)
                => response[p][1].error = None)
    /\ [][\A p \in Procs :
            /\ (FetchReturnOf(p) /\ ret'[p].how \in FailureKinds) =>
                  /\ svcResults'[p] = svcResults[p]
                  /\ results'[p] = results[p]
                  /\ response'[p] = None
                  /\ svcIdx'[p] = svcIdx[p]
                  /\ IF urlIdx[p] < 7
                     THEN pc'[p] = "probe" /\ urlIdx'[p] = urlIdx[p] + 1
                     ELSE pc'[p] = "svcdone"
            /\ (ServiceReturnOf(p) /\ svcIdx[p] < Len(ServicesToSearch(req[p][1]))
                    /\ Len(results'[p]) < EffectiveMax(req[p][1])) =>
                  /\ pc'[p] = "probe"
                  /\ svcIdx'[p] = svcIdx[p] + 1
                  /\ urlIdx'[p] = 1
         ]_vars

\* C5 witness: a search has answered without error; a candidate of the first
\* service failed, a later candidate of that service and a candidate of the
\* second service are among the results
C5_Witness ==
    \E p \in Procs :
        /\ pc[p] = "done" /\ response[p] # None /\ response[p][1].error = None
        /\ failures > 0
        /\ \E i, j, k \in 1..Len(fetchLog[p]) :
              /\ i < j /\ j < k
              /\ fetchLog[p][i] \notin ResultUrls(response[p][1].results)
              /\ fetchLog[p][j] \in ResultUrls(response[p][1].results)
              /\ fetchLog[p][k] \in ResultUrls(response[p][1].results)
              /\ ServiceRank(fetchLog[p][i]) = 1
              /\ ServiceRank(fetchLog[p][j]) = 1
              /\ ServiceRank(fetchLog[p][k]) = 2


\* The records of res follow the enumeration order of their urls
InEnumerationOrder(res) ==
    \A i, j \in 1..Len(res) : i < j => UrlRank(res[i].url) < UrlRank(res[j].url)

\* C6: results are in the enumeration order: every result of an earlier service
\* (iam, s3, lambda, apigateway, cloudwatch, ec2, rds, dynamodb) precedes every
\* result of a later one, and the results of one service are in the order of
\* the candidate list, whether a record came from the cache or from a fetch.
C6_EnumerationOrder ==
    \A p \in Procs :
        /\ InEnumerationOrder(svcResults[p])
        /\ InEnumerationOrder(results[p])
        /\ response[p] # None => InEnumerationOrder(response[p][1].results)

\* C6 witness: a response with results of two services, some served from the
\* cache, and one fetched that stands before a cached one
C6_Witness ==
    \E p \in Procs :
        /\ response[p] # None
        /\ LET res == response[p][1].results
               fetched == {fetchLog[p][k] : k \in 1..Len(fetchLog[p])}
           IN  /\ \E i, j \in 1..Len(res) :
                     ServiceRank(res[i].url) # ServiceRank(res[j].url)
               /\ \E i, j \in 1..Len(res) :
                     /\ i < j
                     /\ res[i].url \in fetched
                     /\ res[j].url \notin fetched
                     /\ ServiceRank(res[i].url) = ServiceRank(res[j].url)

\* C7: in every response totalResults is the number of entries of results, and
\* a response with an error string has no results and totalResults 0.
C7_TotalResults ==
    \A p \in Procs :
        response[p] # None =>
            /\ response[p][1].totalResults = Len(response[p][1].results)
            /\ response[p][1].error # None =>
                  /\ response[p][1].results = << >>
                  /\ response[p][1].totalResults = 0

\* C7 witness: an iam search with maxResults 1 whose candidates answered with
\* one page that matches and with 404s returns one result and totalResults 1
C7_Witness ==
    \E p \in Procs :
        /\ response[p] # None
        /\ req[p][1].maxResults = Some(1)
        /\ Len(response[p][1].results) = 1
        /\ response[p][1].totalResults = 1
        /\ Len(fetchLog[p]) = 7

\* This step is a fetch of search p ending in a parse that produced a record
ParsedStepOf(p) ==
    pc[p] = "reading" /\ pc'[p] # "reading" /\ ret'[p].how = "parsed"

\* C8: the cache entry of a url is written exactly by a 2xx fetch of that url
\* whose parse produced a record, matching the filter or not; every other step
\* leaves the whole cache as it is, and no entry is ever removed.
C8_CacheFrame ==
    [][/\ \A u \in DOMAIN cache : u \in DOMAIN cache'
       /\ \A p \in Procs :
             ParsedStepOf(p) =>
                 LET u == UrlAt(p)
                 IN  /\ DOMAIN cache' = DOMAIN cache \cup {u}
                     /\ cache'[u] = [content |-> ret'[p].content[1], timestamp |-> now]
                     /\ \A v \in DOMAIN cache : v # u => cache'[v] = cache[v]
       /\ (~ \E p \in Procs : ParsedStepOf(p)) => cache' = cache
      ]_vars

\* C8 witness: the cache holds a record that matches neither the query nor the
\* category filter; the entry has expired, the url was fetched again without
\* success, and the entry is still there
C8_Witness ==
    \E p \in Procs : \E u \in DOMAIN cache :
        /\ now - cache[u].timestamp >= TwelveHours
        /\ ret[p].how \in FailureKinds
        /\ ret[p].url = Some(u)
        /\ req[p][1].category # Absent
        /\ cache[u].content.category # req[p][1].category
        /\ ~ Includes(ToLowerCase(cache[u].content.title), ToLowerCase(req[p][1].query))

C10_LastParseWins ==
    /\ [](\A u \in DOMAIN lastParsed :
            u \in DOMAIN cache /\ cache[u].content = lastParsed[u])
    /\ [][\A p \in Procs :
            /\ (FetchReturnOf(p) /\ ret'[p].how \in FailureKinds) => cache' = cache
            /\ ParsedStepOf(p) => cache'[UrlAt(p)].content = ret'[p].content[1]
         ]_vars

\* C10 witness: two searches have completed; both fetched the same url, the
\* first one got a record that the parse of the other has replaced in the cache
C10_Witness ==
    \E p, q \in Procs :
        /\ p # q /\ pc[p] = "done" /\ pc[q] = "done"
        /\ \E u \in DOMAIN cache :
              /\ \E k \in 1..Len(fetchLog[p]) : fetchLog[p][k] = u
              /\ \E k \in 1..Len(fetchLog[q]) : fetchLog[q][k] = u
              /\ \E k \in 1..Len(results[p]) :
                    results[p][k].url = u /\ results[p][k] # cache[u].content

----------------------------------------------------------------------------
(* The query matcher *)

\* s, lower-cased, holds the lower-cased query q as a substring
HoldsQuery(s, q) ==
    LET sl == [i \in 1..Len(s) |-> IF s[i] \in DOMAIN LowerOf THEN LowerOf[s[i]] ELSE s[i]]
        ql == [i \in 1..Len(q) |-> IF q[i] \in DOMAIN LowerOf THEN LowerOf[q[i]] ELSE q[i]]
    IN  \E i \in 1..Len(sl) : \E j \in i..Len(sl) : SubSeq(sl, i, j) = ql

\* The record rec passes the filter of request r
PassesFilter(rec, r) ==
    /\ r.category = Absent \/ rec.category = r.category
    /\ \/ HoldsQuery(rec.title, r.query)
       \/ HoldsQuery(rec.description, r.query)
       \/ \E k \in 1..Len(rec.keywords) : HoldsQuery(rec.keywords[k], r.query)

\* This step is fetchAwsDocContent of search p returning a record, from the
\* cache or from a parse
RecordReturnOf(p) ==
    \/ ProbeStepOf(p) /\ ret'[p].how = "hit"
    \/ ParsedStepOf(p)

\* C11: contentMatchesQuery rejects a record when a category filter is given
\* and differs from the record's category; otherwise it accepts the record
\* exactly when the lower-cased query is a substring of the lower-cased title,
\* description or of one of the lower-cased keywords; records served from the
\* cache pass the same filter as records parsed in this search.
C11_QueryFilter ==
    [][\A p \in Procs :
        RecordReturnOf(p) =>
            LET rec == ret'[p].content[1]
            IN  svcResults'[p] = IF PassesFilter(rec, req[p][1])
                                 THEN Append(svcResults[p], rec)
                                 ELSE svcResults[p]
      ]_vars

\* C11 witness: a record served from the cache matches the query by its
\* description alone and is rejected because its category differs from the
\* filter of the request
C11_Witness ==
    \E p \in Procs :
        /\ ret[p].how = "hit"
        /\ req[p][1].category = Cat_CONFIGURATION
        /\ ret[p].content[1].category = Cat_GENERAL
        /\ HoldsQuery(ret[p].content[1].description, req[p][1].query)
        /\ ~ HoldsQuery(ret[p].content[1].title, req[p][1].query)
        /\ svcResults[p] = << >>

----------------------------------------------------------------------------
(* The category of a parsed record *)

\* The rules in their priority order: the needle looked for in the lower-cased
\* url, the needle looked for in the lower-cased title, the category
CategoryRules ==
    << [inUrl |-> <<"a","c","c","e","s","s","-","d","e","n","i","e","d">>, inTitle |-> <<"a","c","c","e","s","s"," ","d","e","n","i","e","d">>, category |-> "access-denied"],
       [inUrl |-> <<"p","e","r","m","i","s","s","i","o","n">>, inTitle |-> <<"p","e","r","m","i","s","s","i","o","n">>, category |-> "permissions"],
       [inUrl |-> <<"a","u","t","h">>, inTitle |-> <<"a","u","t","h">>, category |-> "authentication"],
       [inUrl |-> <<"c","o","n","f","i","g">>, inTitle |-> <<"c","o","n","f","i","g">>, category |-> "configuration"] >>

\* Rule k applies to the record rec
RuleApplies(k, rec) ==
    \/ HoldsQuery(rec.url, CategoryRules[k].inUrl)
    \/ HoldsQuery(rec.title, CategoryRules[k].inTitle)

\* C12: every parsed record has exactly one category: that of the first rule,
\* in the order access-denied, permissions, authentication, configuration,
\* whose needle is in the lower-cased url or title, and GENERAL when no rule
\* applies; the category is never null.
C12_CategoryPriority ==
    (call.fn = "parseAwsDocumentationHtml" /\ result # None) =>
        LET rec == result[1]
            applying == {k \in 1..Len(CategoryRules) : RuleApplies(k, rec)}
        IN  /\ rec.category \in {"access-denied", "configuration", "permissions",
                                  "authentication", "api-errors", "network",
                                  "performance", "general"}
            /\ applying = {} => rec.category = "general"
            /\ applying # {} =>
                   \E k \in applying :
                       /\ \A j \in applying : k <= j
                       /\ rec.category = CategoryRules[k].category

\* C12 witness: the permissions rule applies by the url, the authentication
\* and configuration rules by the title, and the record is in permissions
C12_Witness ==
    /\ call.fn = "parseAwsDocumentationHtml" /\ result # None
    /\ ~ RuleApplies(1, result[1])
    /\ HoldsQuery(result[1].url, CategoryRules[2].inUrl)
    /\ ~ HoldsQuery(result[1].title, CategoryRules[2].inTitle)
    /\ RuleApplies(3, result[1]) /\ RuleApplies(4, result[1])
    /\ result[1].category = "permissions"

----------------------------------------------------------------------------
(* The error names of a text *)

\* The matches of pattern family n in the text of the call
FamilyMatches(n) == ErrorMatches(n, call.text, ToLowerCase(call.text), 1)

\* All matches, family after family, each family in text order
AllErrorMatches ==
    FamilyMatches(1) \o FamilyMatches(2) \o FamilyMatches(3) \o FamilyMatches(4)

\* C16: the list extractErrorsFromText returns holds no string twice (exact,
\* case-sensitive equality), also when a name is matched by several pattern
\* families or repeats; it holds every match, in the order of the first
\* appearance, the families taken in their fixed order.
C16_ErrorsDeduplicated ==
    (call.fn = "extractErrorsFromText" /\ result # None) =>
        LET errors == result[1]
            all == AllErrorMatches
            first(x) == Least({k \in 1..Len(all) : all[k] = x})
        IN  /\ \A i, j \in 1..Len(errors) : i # j => errors[i] # errors[j]
            /\ {errors[k] : k \in 1..Len(errors)} = {all[k] : k \in 1..Len(all)}
            /\ \A i, j \in 1..Len(errors) :
                  i < j => first(errors[i]) < first(errors[j])

\* C16 witness: a name is matched by the first and by the third family; the
\* list holds it once, followed by the same name in other letter case
C16_Witness ==
    /\ call.fn = "extractErrorsFromText" /\ result # None
    /\ LET f1 == FamilyMatches(1)
           f3 == FamilyMatches(3)
       IN  \E a \in 1..Len(f1) : \E b \in 1..Len(f3) :
              /\ f1[a] = f3[b]
              /\ result[1][1] = f1[a]
              /\ Len(result[1]) = 2
              /\ result[1][2] # f1[a]
              /\ ToLowerCase(result[1][2]) = ToLowerCase(f1[a])

----------------------------------------------------------------------------
(* The steps of a document *)

StepsReturned == call.fn = "extractTroubleshootingSteps" /\ result # None

\* The ordered lists of the document and the items of list l, in document order
OrderedLists == TagMatches(call.html, Tag_ol, Tag_ol_end, 1)
ItemsOf(l)   == TagMatches(OrderedLists[l].inner, Tag_li, Tag_li_end, 1)

\* The text of an item without its tags, and the same without outer white space
Stripped(item) == StripTagsFrom(item.inner, 1)
ItemText(item) == Trim(Stripped(item))

\* The items of list l that make a step
KeptItems(l) == {k \in 1..Len(ItemsOf(l)) : Len(ItemText(ItemsOf(l)[k])) > 10}

RECURSIVE KeptUpTo(_)
\* The number of steps the lists 1..l make
KeptUpTo(l) == IF l = 0 THEN 0 ELSE Cardinality(KeptItems(l)) + KeptUpTo(l - 1)

ListStepCount == KeptUpTo(Len(OrderedLists))

\* C13: in the list pass the numbering restarts at 1 for every ordered list; an
\* item is kept only if its tag-stripped text has more than 10 characters; the
\* kept items of a list are numbered 1..K in document order, and a dropped item
\* neither appears in the output nor takes a number, wherever it stands.
C13_ListNumbering ==
    StepsReturned =>
        LET steps == result[1]
            total == ListStepCount
        IN  /\ total <= Len(steps)
            /\ \A l \in 1..Len(OrderedLists) :
                  LET items == ItemsOf(l)
                      kept  == KeptItems(l)
                      base  == KeptUpTo(l - 1)
                  IN  \A k \in kept :
                          LET rank == Cardinality({j \in kept : j <= k})
                          IN  /\ Len(Stripped(items[k])) > 10
                              /\ steps[base + rank].step = rank
                              /\ steps[base + rank].description = ItemText(items[k])

\* C13 witness: a list whose second item of three is dropped gives the steps 1
\* and 2, and the only item of a later list is numbered 1 again
C13_Witness ==
    /\ StepsReturned
    /\ Len(OrderedLists) = 2
    /\ KeptItems(1) = {1, 3} /\ Len(ItemsOf(1)) = 3
    /\ KeptItems(2) = {1}
    /\ Len(result[1]) >= 3
    /\ result[1][1].step = 1 /\ result[1][2].step = 2 /\ result[1][3].step = 1
    /\ result[1][2].description = ItemText(ItemsOf(1)[3])

\* The document has no <ol
NoOrderedList == IndexOf(call.html, Tag_ol, 1) = 0

\* Some heading of level 3 to 6 has a procedure word in its own text, the text
\* between its opening tag and the next closing heading tag
HeadingWithProcedureWord ==
    LET low == ToLowerCase(call.html)
    IN  \E i \in 1..Len(low) :
            /\ HeadingOpenAt(low, i, 3, 6)
            /\ LET j == IndexOf(low, <<">">>, i + 3)
                   e == IndexOf(low, Tag_h_end, j + 1)
               IN  /\ j # 0 /\ e # 0
                   /\ \E w \in ProcedureWords : Includes(SubSeq(low, j + 1, e - 1), w)

\* C14: for a document without an <ol> block and without a heading of level 3
\* to 6 whose own text holds "step", "procedure", "process" or "solution" (in
\* any letter case), extractTroubleshootingSteps returns the empty list, also
\* when one of these words stands in the body text between two headings.
C14_NoMatchNoSteps ==
    (StepsReturned /\ NoOrderedList /\ ~ HeadingWithProcedureWord) => result[1] = << >>

Title_Procedure == <<"T","r","o","u","b","l","e","s","h","o","o","t","i","n","g"," ","P","r","o","c","e","d","u","r","e">>

\* No number is carried by two steps
NumbersUnique(steps) ==
    \A i, j \in 1..Len(steps) : i # j => steps[i].step # steps[j].step

\* The steps of the list pass stand first, every step of the heading pass
\* carries its 1-based position in the whole list
HeadingStepsNumberedByPosition(steps) ==
    \A i \in 1..Len(steps) :
        IF i <= ListStepCount
        THEN steps[i].title # Title_Procedure
        ELSE steps[i].title = Title_Procedure /\ steps[i].step = i

\* C18 as stated: list-pass steps precede heading-pass steps, a heading-pass
\* step carries steps.length + 1, and so the numbers of one result are not
\* unique when both passes produce steps or when several lists are present.
C18_NumbersRepeat ==
    StepsReturned =>
        LET steps == result[1]
        IN  /\ HeadingStepsNumberedByPosition(steps)
            /\ ((ListStepCount > 0 /\ Len(steps) > ListStepCount) \/ Len(OrderedLists) >= 2)
                  => ~ NumbersUnique(steps)

\* C18 amended: list-pass steps precede heading-pass steps and a heading-pass
\* step carries its 1-based position in the whole list; the numbers of one
\* result repeat exactly when two or more lists each give a step: one list
\* followed by heading-pass steps is numbered 1..K, K+1, ... without repeats.
C18_HeadingNumbering ==
    StepsReturned =>
        LET steps == result[1]
            giving == {l \in 1..Len(OrderedLists) : KeptItems(l) # {}}
        IN  /\ HeadingStepsNumberedByPosition(steps)
            /\ NumbersUnique(steps) <=> Cardinality(giving) <= 1

\* C18 witness: one list gives the steps 1 and 2 and the heading pass gives a
\* third step, numbered 3
C18_Witness ==
    /\ StepsReturned
    /\ Len(OrderedLists) = 1 /\ ListStepCount = 2
    /\ Len(result[1]) = 3
    /\ result[1][3].title = Title_Procedure /\ result[1][3].step = 3
    /\ NumbersUnique(result[1])

----------------------------------------------------------------------------
(* The code examples of a document *)

ExamplesReturned == call.fn = "extractCodeExamples" /\ result # None

\* The <pre> blocks and the <code> elements of the document, in document order
PreBlocks    == TagMatches(call.html, Tag_pre, Tag_pre_end, 1)
CodeElements == TagMatches(call.html, Tag_code, Tag_code_end, 1)

\* The <pre> blocks that give an example: those with more than 5 characters of code
PreGiving == {k \in 1..Len(PreBlocks) : Len(Trim(StripTagsFrom(PreBlocks[k].inner, 1))) > 5}

\* The value of the class attribute of a tag; empty without one
ClassValue(attrs) ==
    LET at    == IndexOf(attrs, Attr_class, 1)
        open  == at + Len(Attr_class)
        close == IndexOf(attrs, <<"\"">>, open)
    IN  IF at = 0 \/ close = 0 THEN << >> ELSE SubSeq(attrs, open, close - 1)

\* The <id> of the lang-<id> token of a class value; null without such a token
LangToken(class) ==
    LET starts == {a \in 1..Len(class) :
                      /\ StartsWithAt(class, a, Word_lang)
                      /\ (a = 1 \/ class[a - 1] = " ")}
        a      == Least(starts)
        space  == IndexOf(class, <<" ">>, a)
        last   == IF space = 0 THEN Len(class) ELSE space - 1
    IN  IF starts = {} THEN None ELSE Some(SubSeq(class, a + Len(Word_lang), last))

\* The alias table
LanguageAlias ==
    (<<"j","s">> :> <<"j","a","v","a","s","c","r","i","p","t">>)
 @@ (<<"t","s">> :> <<"t","y","p","e","s","c","r","i","p","t">>)
 @@ (<<"p","y">> :> <<"p","y","t","h","o","n">>)
 @@ (<<"r","b">> :> <<"r","u","b","y">>)
 @@ (<<"y","m","l">> :> <<"y","a","m","l">>)
 @@ (<<"m","d">> :> <<"m","a","r","k","d","o","w","n">>)
 @@ (<<"s","h">> :> <<"b","a","s","h">>)
 @@ (<<"s","h","e","l","l">> :> <<"b","a","s","h">>)

Aliased(id) == IF id \in DOMAIN LanguageAlias THEN LanguageAlias[id] ELSE id

\* C15: every <pre> block whose tag has a class with a lang-<id> token gives an
\* example whose language is <id> passed through the alias table, and "text"
\* only without such a token; <pre class="lang-py">print(1)</pre> gives one
\* example with the language "python".
C15_LanguageFromClass ==
    ExamplesReturned =>
        /\ Len(result[1]) >= Cardinality(PreGiving)
        /\ \A k \in PreGiving :
              LET rank  == Cardinality({j \in PreGiving : j <= k})
                  token == LangToken(ClassValue(PreBlocks[k].attrs))
              IN  result[1][rank].language =
                      IF token = None THEN <<"t","e","x","t">> ELSE Aliased(token[1])

\* The <code> elements with more than 20 characters of text
CodeGiving ==
    {k \in 1..Len(CodeElements) : Len(Trim(StripTagsFrom(CodeElements[k].inner, 1))) > 20}

\* C19: every <code> element whose tag-stripped, trimmed text is longer than 20
\* characters gives one example with the description "Inline code snippet",
\* whatever its characters are (a text without a space included); an element
\* with 20 characters or less gives none.
C19_InlineSnippets ==
    ExamplesReturned =>
        LET inline == SelectSeq(result[1],
                          LAMBDA x : x.description = <<"I","n","l","i","n","e"," ","c","o","d","e"," ","s","n","i","p","p","e","t">>)
        IN  /\ Len(inline) = Cardinality(CodeGiving)
            /\ \A k \in CodeGiving :
                  inline[Cardinality({j \in CodeGiving : j <= k})].code
                      = Trim(StripTagsFrom(CodeElements[k].inner, 1))

\* The text of the first <open ...>...<close> of the document when it is longer
\* than 5 characters, else null
FirstLongText(open, close) ==
    LET i     == IndexOf(call.html, open, 1)
        j     == IndexOf(call.html, <<">">>, i + Len(open))
        k     == IndexOf(call.html, close, j + 1)
        text  == Trim(StripTagsFrom(SubSeq(call.html, j + 1, k - 1), 1))
    IN  IF i = 0 \/ j = 0 \/ k = 0 THEN None
        ELSE IF Len(text) > 5 THEN Some(text) ELSE None

\* C20: extractCodeFromText tries the first <code> element, then the first
\* <pre> block, and returns the first of the two whose cleaned text is longer
\* than 5 characters; it returns absent only when neither is: a fragment with a
\* <code> element of 5 characters or less and a <pre> block of more than 5
\* gives the <pre> text.
C20_CodeThenPre ==
    (call.fn = "extractCodeFromText" /\ result # None) =>
        result[1] = IF FirstLongText(Tag_code, Tag_code_end) # None
                    THEN FirstLongText(Tag_code, Tag_code_end)
                    ELSE FirstLongText(Tag_pre, Tag_pre_end)

----------------------------------------------------------------------------
(* Termination *)

\* The services search p has entered so far: the loop index while the loop
\* runs, the services whose urls were fetched after it
ServicesEntered(p) ==
    IF svcIdx[p] <= Len(ServicesToSearch(req[p][1])) THEN svcIdx[p]
    ELSE Cardinality({ServiceRank(fetchLog[p][k]) : k \in 1..Len(fetchLog[p])})

\* C17: every call of searchCloudProviderDocs resolves, once every fetch it
\* issues has settled, to a complete response (results, totalResults,
\* searchTime, optional error) and never rejects; a search issues at most 7
\* fetches for every service it searches.
C17_Resolves ==
    /\ (\E p \in Procs : req[p] # None /\ pc[p] # "done")
          ~> (\A p \in Procs : req[p] # None => pc[p] = "done")
    /\ [](\A p \in Procs :
            /\ pc[p] \in {"idle", "probe", "fetching", "reading", "svcdone", "done"}
            /\ pc[p] = "done" =>
                  /\ response[p] # None
                  /\ DOMAIN response[p][1] = {"results", "totalResults", "searchTime", "error"}
                  /\ response[p][1].totalResults \in Nat
                  /\ response[p][1].searchTime \in Nat
            /\ pc[p] \notin {"idle", "done"} => response[p] = None
            /\ req[p] # None =>
                  /\ Len(fetchLog[p]) <= 7 * ServicesEntered(p)
                  /\ Len(fetchLog[p]) <= 7 * Len(ServicesToSearch(req[p][1])))

\* C17 witness: a search over all services has resolved after a failed fetch;
\* it has left the loop at the cap after 7 fetches for each of two services
C17_Witness ==
    \E p \in Procs :
        /\ pc[p] = "done" /\ response[p] # None
        /\ req[p][1].service = None
        /\ failures > 0
        /\ Len(response[p][1].results) = 10
        /\ Len(fetchLog[p]) = 14

----------------------------------------------------------------------------
(* The place of the maxResults check *)

\* Search p is inside a call of searchServiceDocs, at one of its candidates
InService(p) == pc[p] \in {"probe", "fetching", "reading"}

\* The step of search p looks up the cache for the candidate it is at
LooksUp(p) == pc[p] = "probe" /\ (pc'[p] # "probe" \/ urlIdx'[p] # urlIdx[p])

\* C21: maxResults is checked only where a service iteration starts: a search
\* is inside a service only while its accumulated results are below
\* maxResults, so no candidate of a later service is looked up or fetched once
\* they have reached it; inside a service every one of the 7 candidates is
\* looked up in turn (answered by the cache or fetched), whatever the number
\* of matches already found, and the service ends after the 7th only.
C21_CheckAtServiceStart ==
    /\ [](\A p \in Procs :
            (InService(p) \/ pc[p] = "svcdone") =>
                Len(results[p]) < EffectiveMax(req[p][1]))
    /\ [][\A p \in Procs :
            /\ LooksUp(p) =>
                  LET url == CurrentUrl(req[p][1], svcIdx[p], urlIdx[p])
                  IN  \/ ret'[p].url = Some(url) /\ ret'[p].how = "hit"
                         /\ fetchLog'[p] = fetchLog[p]
                      \/ pc'[p] = "fetching" /\ fetchLog'[p] = Append(fetchLog[p], url)
            /\ (InService(p) /\ urlIdx[p] < Len(troubleshootingPatterns)) =>
                  /\ InService(p)'
                  /\ svcIdx'[p] = svcIdx[p]
                  /\ results'[p] = results[p]
                  /\ urlIdx'[p] \in {urlIdx[p], urlIdx[p] + 1}
                  /\ (urlIdx'[p] = urlIdx[p] + 1) <=>
                        (ret'[p].url = Some(CurrentUrl(req[p][1], svcIdx[p], urlIdx[p])))
            /\ (pc'[p] = "svcdone" /\ pc[p] # "svcdone") =>
                  /\ InService(p)
                  /\ urlIdx[p] = Len(troubleshootingPatterns)
                  /\ ret'[p].url = Some(CurrentUrl(req[p][1], svcIdx[p], urlIdx[p]))]_vars

\* C21 witness: a search over all services with maxResults 2 has resolved
\* after the 7 fetches of its first service, which found more than 2 matches,
\* and without a fetch for another service
C21_Witness ==
    \E p \in Procs :
        /\ pc[p] = "done" /\ response[p] # None
        /\ req[p][1].service = None
        /\ req[p][1].maxResults = Some(2)
        /\ Len(svcResults[p]) > 2
        /\ Len(fetchLog[p]) = Len(troubleshootingPatterns)
        /\ \A k \in 1..Len(fetchLog[p]) : ServiceRank(fetchLog[p][k]) = 1

----------------------------------------------------------------------------
(* The categories that are assigned *)

AssignedCategories ==
    {"access-denied", "permissions", "authentication", "configuration", "general"}

UnassignedCategories == {"api-errors", "network", "performance"}

\* Every record of the sequence s has an assigned category
AllAssigned(s) == \A k \in 1..Len(s) : s[k].category \in AssignedCategories

\* C23: every record in the cache and in the results of a search has one of
\* the categories access-denied, permissions, authentication, configuration
\* and general, never api-errors, network or performance; an aws search whose
\* category filter is one of these three resolves to an empty result list
\* without an error, whatever the pages hold.
C23_UnassignedCategories ==
    /\ \A u \in DOMAIN cache : cache[u].content.category \in AssignedCategories
    /\ \A p \in Procs :
          /\ AllAssigned(results[p]) /\ AllAssigned(svcResults[p])
          /\ ret[p].content # None => ret[p].content[1].category \in AssignedCategories
          /\ (req[p] # None /\ req[p][1].provider = "aws"
                /\ req[p][1].category \in UnassignedCategories) =>
                 /\ results[p] = << >> /\ svcResults[p] = << >>
                 /\ pc[p] = "done" =>
                       /\ response[p][1].results = << >>
                       /\ response[p][1].totalResults = 0
                       /\ response[p][1].error = None
          /\ (pc[p] = "done" /\ response[p] # None) => AllAssigned(response[p][1].results)

\* C23 witness: a search with the category filter network has resolved after
\* it parsed a page whose title, description and keywords name the three
\* categories and which holds the query
C23_Witness ==
    \E p \in Procs :
        /\ pc[p] = "done" /\ response[p] # None
        /\ req[p][1].category = "network"
        /\ \E k \in 1..Len(fetchLog[p]) :
              /\ fetchLog[p][k] \in DOMAIN cache
              /\ cache[fetchLog[p][k]].content.title = PageE.title[1]
              /\ cache[fetchLog[p][k]].timestamp >= startTime[p]
              /\ HoldsQuery(cache[fetchLog[p][k]].content.title, req[p][1].query)

----------------------------------------------------------------------------
(* The service name of a request *)

ConfiguredServices ==
    {<<"i","a","m">>, <<"s","3">>, <<"l","a","m","b","d","a">>,
     <<"a","p","i","g","a","t","e","w","a","y">>,
     <<"c","l","o","u","d","w","a","t","c","h">>, <<"e","c","2">>, <<"r","d","s">>,
     <<"d","y","n","a","m","o","d","b">>}

\* The name s with its upper-case letters replaced by the lower-case ones
LowerCased(s) ==
    [i \in 1..Len(s) |-> IF s[i] \in DOMAIN LowerOf THEN LowerOf[s[i]] ELSE s[i]]

\* The request of search p is an aws request that names a service
NamesService(r) == r # None /\ r[1].provider = "aws" /\ r[1].service \notin {None, Some(<< >>)}

\* The candidate urls of the configured service name
CandidatesOf(name) ==
    {AWS_DOCS_BASE_URL \o AWS_SERVICE_PATTERNS[name] \o troubleshootingPatterns[i] :
        i \in 1..Len(troubleshootingPatterns)}

\* C24: an aws search whose service name, lower-cased, is none of the eight
\* configured services resolves at once to results [], totalResults 0 and no
\* error, calls fetch for no url and leaves the cache as it is; a name that
\* differs from a configured one in letter case only is searched over the
\* candidate urls of the configured service.
C24_UnconfiguredService ==
    [][\A p \in Procs :
        NamesService(req'[p]) =>
            LET name == LowerCased(req'[p][1].service[1])
            IN  IF name \notin ConfiguredServices
                THEN /\ fetchLog'[p] = << >>
                     /\ inflight'[p] = {}
                     /\ pc'[p] = "done"
                     /\ response'[p] # None
                     /\ response'[p][1].results = << >>
                     /\ response'[p][1].totalResults = 0
                     /\ response'[p][1].error = None
                     /\ cache' = cache
                ELSE /\ \A k \in 1..Len(fetchLog'[p]) : fetchLog'[p][k] \in CandidatesOf(name)
                     /\ ret'[p].url # None => ret'[p].url[1] \in CandidatesOf(name)
                     /\ pc'[p] = "done" =>
                           ret'[p].url = Some(AWS_DOCS_BASE_URL \o AWS_SERVICE_PATTERNS[name]
                                               \o troubleshootingPatterns[Len(troubleshootingPatterns)])
      ]_vars

----------------------------------------------------------------------------
(* The cache and the results of a search *)

\* The record rec without the time of its parse
Core(rec) ==
    [title |-> rec.title, url |-> rec.url, description |-> rec.description,
     keywords |-> rec.keywords, category |-> rec.category]

Cores(s) == [k \in 1..Len(s) |-> Core(s[k])]

\* What the i-th candidate url of the configured service name gives a search
\* that finds the cache empty: the record parsed from the document the fixed
\* web holds there, or nothing
ColdRecord(name, i) ==
    LET url == AWS_DOCS_BASE_URL \o AWS_SERVICE_PATTERNS[name] \o troubleshootingPatterns[i]
        ans == FixedAnswer(url)
    IN  IF ans.settle = "ok" /\ ans.kind = "parsed"
        THEN Some(Core(parseAwsDocumentationHtml(ans.page, url, 0)))
        ELSE None

\* The records request r takes from the service name on an empty cache, in
\* candidate order
ColdServiceDocs(r, name) ==
    LET all == [i \in 1..Len(troubleshootingPatterns) |-> ColdRecord(name, i)]
        Kept(x) == x # None /\ PassesFilter(x[1], r)
        kept == SelectSeq(all, Kept)
    IN  [k \in 1..Len(kept) |-> kept[k][1]]

RECURSIVE ColdFrom(_, _, _, _)
\* The results of request r on an empty cache, from the i-th of the names on,
\* with the results res of the names before
ColdFrom(r, names, i, res) ==
    LET max  == IF r.maxResults \in {None, Some(0)} THEN 10 ELSE r.maxResults[1]
        docs == ColdServiceDocs(r, names[i])
        room == max - Len(res)
    IN  IF i > Len(names) \/ Len(res) >= max THEN res
        ELSE ColdFrom(r, names, i + 1,
                      res \o SubSeq(docs, 1, IF Len(docs) < room THEN Len(docs) ELSE room))

\* The results of request r run against an empty cache
ColdRun(r) ==
    ColdFrom(r, IF r.service = None THEN ServiceKeys ELSE <<LowerCased(r.service[1])>>,
             1, << >>)

ColdTable == [r \in FixedRequests |-> ColdRun(r)]

ColdResults(r) == ColdTable[r]

\* C22: on a web whose pages and fetch outcomes are fixed per url, every search
\* resolves to the records, in the order, that its request gives on an empty
\* cache (lastUpdated and searchTime set aside), whether its candidates were
\* fetched or answered from the cache, and whichever request filled the cache.
C22_CacheTransparent ==
    \A p \in Procs :
        (pc[p] = "done" /\ response[p] # None) =>
            /\ Cores(response[p][1].results) = ColdResults(req[p][1])
            /\ response[p][1].totalResults = Len(ColdResults(req[p][1]))
            /\ response[p][1].error = None

\* C22 witness: two searches of the same service with different query and
\* category have resolved; the second made no fetch for the four documents
\* the first had cached and has results
C22_Witness ==
    /\ pc[1] = "done" /\ pc[2] = "done"
    /\ req[1][1].service = req[2][1].service
    /\ req[1][1].query # req[2][1].query
    /\ req[1][1].category # req[2][1].category
    /\ Len(fetchLog[1]) = Len(troubleshootingPatterns)
    /\ Len(fetchLog[2]) = 3
    /\ \A k \in 1..Len(fetchLog[2]) : fetchLog[2][k] \notin DOMAIN cache
    /\ response[2][1].results # << >>
    /\ response[1][1].results # response[2][1].results

====
